---- MODULE Spec2Model ----
(***************************************************************************)
(* The expense tracker's state store (src/lib/store/index.ts), its         *)
(* aggregation engine and CSV import normalizer (src/lib/utils/index.ts),  *)
(* the import handler of the data-management view and the category        *)
(* breakdown of the chart (src/components/shared/Summary.tsx), and the     *)
(* CSV export of the export form (src/unnamed/part_002).                   *)
(*                                                                         *)
(* Representation.                                                         *)
(*  - A JavaScript string that the code inspects character by character    *)
(*    (CSV text, labels, category ids, descriptions) is a sequence of      *)
(*    one-character strings.                                               *)
(*  - A JavaScript number is a record [k, v, d]: k = "num" for a finite    *)
(*    double, with v its value in hundredths rounded to an integer and d   *)
(*    its binary form when it is not the double nearest to v / 100;        *)
(*    k = "nan", k = "inf" with v the sign, and k = "null" for the JSON    *)
(*    null that JSON.stringify writes for a non-finite number. Sums,       *)
(*    products and quotients are rounded as IEEE-754 binary64 rounds them. *)
(*  - An instant is a whole number of minutes since 1970-01-01T00:00Z; an  *)
(*    ISO date string is the record [k |-> "ok", v |-> instant], and a     *)
(*    string that new Date() cannot parse is [k |-> "bad", v |-> 0].       *)
(*  - A month string "yyyy-MM" is the record [y, m].                       *)
(***************************************************************************)
EXTENDS Integers, Sequences, FiniteSets, TLC

\* Longest transaction list the model explores.
MaxTx == 2

-----------------------------------------------------------------------------
(* Characters and strings *)

DigitChars == <<"0", "1", "2", "3", "4", "5", "6", "7", "8", "9">>
Digits == {DigitChars[i] : i \in 1..10}
DigitVal(c) == (CHOOSE i \in 1..10 : DigitChars[i] = c) - 1

UpperChars == <<"A", "B", "C", "D", "E", "F", "G", "H", "I", "J", "K", "L", "M",
                "N", "O", "P", "Q", "R", "S", "T", "U", "V", "W", "X", "Y", "Z">>
LowerChars == <<"a", "b", "c", "d", "e", "f", "g", "h", "i", "j", "k", "l", "m",
                "n", "o", "p", "q", "r", "s", "t", "u", "v", "w", "x", "y", "z">>
Uppers == {UpperChars[i] : i \in 1..26}

\* The characters \s and String.prototype.trim treat as white space (the
\* ones that occur in the modelled inputs).
WhiteSpace == {" ", "\t", "\n", "\r", "\f"}

\* s.trim() === ''
IsBlank(s) == \A i \in 1..Len(s) : s[i] \in WhiteSpace

\* String.prototype.trim
trim(s) ==
  IF IsBlank(s) THEN <<>>
  ELSE LET first == CHOOSE i \in 1..Len(s) :
                      /\ s[i] \notin WhiteSpace
                      /\ \A j \in 1..(i - 1) : s[j] \in WhiteSpace
           last == CHOOSE i \in 1..Len(s) :
                      /\ s[i] \notin WhiteSpace
                      /\ \A j \in (i + 1)..Len(s) : s[j] \in WhiteSpace
       IN SubSeq(s, first, last)

\* String.prototype.toLowerCase on the ASCII letters
LowerChar(c) ==
  IF c \in Uppers THEN LowerChars[CHOOSE i \in 1..26 : UpperChars[i] = c] ELSE c
toLowerCase(s) == [i \in 1..Len(s) |-> LowerChar(s[i])]

\* String.prototype.split(sep) for a one-character separator
RECURSIVE split(_, _)
split(s, sep) ==
  IF \A i \in 1..Len(s) : s[i] # sep THEN <<s>>
  ELSE LET p == CHOOSE i \in 1..Len(s) :
                  s[i] = sep /\ \A j \in 1..(i - 1) : s[j] # sep
       IN <<SubSeq(s, 1, p - 1)>> \o split(SubSeq(s, p + 1, Len(s)), sep)

\* s.replace(/\s+/g, '_')
RECURSIVE replaceSpaceRuns(_)
replaceSpaceRuns(s) ==
  IF s = <<>> THEN <<>>
  ELSE IF s[1] \in WhiteSpace
       THEN IF Len(s) >= 2 /\ s[2] \in WhiteSpace
            THEN replaceSpaceRuns(Tail(s))
            ELSE <<"_">> \o replaceSpaceRuns(Tail(s))
       ELSE <<s[1]>> \o replaceSpaceRuns(Tail(s))

\* s.replace(',', ''): the first comma only
replaceFirstComma(s) ==
  IF \A i \in 1..Len(s) : s[i] # "," THEN s
  ELSE LET p == CHOOSE i \in 1..Len(s) :
                  s[i] = "," /\ \A j \in 1..(i - 1) : s[j] # ","
       IN SubSeq(s, 1, p - 1) \o SubSeq(s, p + 1, Len(s))

\* s.replace(/,/g, '')
removeCommas(s) == SelectSeq(s, LAMBDA c : c # ",")

\* s.replace(/[^\d.-]/g, '')
keepDigitsDotMinus(s) == SelectSeq(s, LAMBDA c : c \in Digits \cup {".", "-"})

AllDigits(s) == \A i \in 1..Len(s) : s[i] \in Digits

RECURSIVE DecVal(_)
DecVal(s) == IF s = <<>> THEN 0 ELSE 10 * DecVal(SubSeq(s, 1, Len(s) - 1)) + DigitVal(s[Len(s)])

RECURSIVE Join(_, _)
Join(parts, sep) ==
  IF parts = <<>> THEN <<>>
  ELSE IF Len(parts) = 1 THEN parts[1]
  ELSE parts[1] \o sep \o Join(Tail(parts), sep)

-----------------------------------------------------------------------------
(* Numbers: IEEE-754 binary64 *)

\* Natural numbers of any size, as their digits in base 2^15, least
\* significant first, without leading zeros
RECURSIVE limbsOf(_)
limbsOf(n) == IF n = 0 THEN <<>> ELSE <<n % 32768>> \o limbsOf(n \div 32768)

RECURSIVE intOf(_)
intOf(a) == IF a = <<>> THEN 0 ELSE a[1] + 32768 * intOf(Tail(a))

RECURSIVE trimLimbs(_)
trimLimbs(a) ==
  IF a = <<>> \/ a[Len(a)] # 0 THEN a ELSE trimLimbs(SubSeq(a, 1, Len(a) - 1))

low(a) == IF a = <<>> THEN 0 ELSE a[1]
rest(a) == IF a = <<>> THEN <<>> ELSE Tail(a)

RECURSIVE addCarry(_, _, _)
addCarry(a, b, c) ==
  IF a = <<>> /\ b = <<>> THEN limbsOf(c)
  ELSE <<(low(a) + low(b) + c) % 32768>>
         \o addCarry(rest(a), rest(b), (low(a) + low(b) + c) \div 32768)

addLimbs(a, b) == addCarry(a, b, 0)

RECURSIVE subBorrow(_, _, _)
subBorrow(a, b, c) ==
  IF a = <<>> THEN <<>>
  ELSE <<(low(a) - low(b) - c + 32768) % 32768>>
         \o subBorrow(rest(a), rest(b), IF low(a) - low(b) - c < 0 THEN 1 ELSE 0)

\* a - b, for a >= b
subLimbs(a, b) == trimLimbs(subBorrow(a, b, 0))

RECURSIVE leqFrom(_, _, _)
leqFrom(a, b, i) == i = 0 \/ a[i] < b[i] \/ (a[i] = b[i] /\ leqFrom(a, b, i - 1))

leqLimbs(a, b) == Len(a) < Len(b) \/ (Len(a) = Len(b) /\ leqFrom(a, b, Len(a)))

RECURSIVE mulSmallCarry(_, _, _)
mulSmallCarry(a, n, c) ==
  IF a = <<>> THEN limbsOf(c)
  ELSE <<(a[1] * n + c) % 32768>> \o mulSmallCarry(Tail(a), n, (a[1] * n + c) \div 32768)

\* a * n, for n below 2^15
mulSmall(a, n) == IF n = 0 THEN <<>> ELSE mulSmallCarry(a, n, 0)

shiftLimbs(a, n) == IF a = <<>> THEN <<>> ELSE [i \in 1..n |-> 0] \o a

RECURSIVE mulLimbs(_, _)
mulLimbs(a, b) ==
  IF a = <<>> \/ b = <<>> THEN <<>>
  ELSE addLimbs(mulSmall(a, b[1]), shiftLimbs(mulLimbs(a, Tail(b)), 1))

\* The quotient q and the remainder r of a by n, for n below 2^15
RECURSIVE divSmallFrom(_, _, _, _, _)
divSmallFrom(a, n, i, r, q) ==
  IF i = 0 THEN [q |-> trimLimbs(q), r |-> r]
  ELSE divSmallFrom(a, n, i - 1, (r * 32768 + a[i]) % n,
                    <<(r * 32768 + a[i]) \div n>> \o q)

divSmall(a, n) == divSmallFrom(a, n, Len(a), 0, <<>>)

\* The number of binary digits
bitLength(a) ==
  IF a = <<>> THEN 0
  ELSE 15 * (Len(a) - 1)
         + CHOOSE n \in 1..15 : 2^(n - 1) <= a[Len(a)] /\ a[Len(a)] < 2^n

\* a * 2^n and the integer part of a / 2^n
shl(a, n) == shiftLimbs(mulSmall(a, 2^(n % 15)), n \div 15)
shr(a, n) ==
  IF n \div 15 >= Len(a) THEN <<>>
  ELSE divSmall(SubSeq(a, n \div 15 + 1, Len(a)), 2^(n % 15)).q

\* The binary digit of weight 2^(n - 1)
bitAt(a, n) == (a[(n - 1) \div 15 + 1] \div 2^((n - 1) % 15)) % 2

\* The next digit, in base 32, of a long division with divisor y
quotientDigit(r, y) ==
  CHOOSE n \in 0..31 : leqLimbs(mulSmall(y, n), r) /\ ~leqLimbs(mulSmall(y, n + 1), r)

\* Long division in base 32 of r * 32^n by y, for r < 32 * y: quotient and
\* remainder
RECURSIVE divTake(_, _, _, _, _)
divDigits(r, y, n, q) ==
  IF n = 0 THEN [q |-> q, r |-> r]
  ELSE divTake(mulSmall(r, 32), y, n, mulSmall(q, 32), quotientDigit(mulSmall(r, 32), y))

divTake(r, y, n, q, digit) ==
  divDigits(subLimbs(r, mulSmall(y, digit)), y, n - 1, addLimbs(q, limbsOf(digit)))

\* A finite double: sign s, and for a nonzero one its significand m of 53
\* binary digits and the exponent e of the lowest of them (s * m * 2^e).
\* Subnormal numbers and overflow to an infinity lie outside the amounts
\* modelled.
Zero64 == [s |-> 0, m |-> <<>>, e |-> 0]

withSign(s, r) == IF r.m = <<>> THEN Zero64 ELSE [s |-> s, m |-> r.m, e |-> r.e]

carried(r, e) ==
  IF bitLength(r) > 53 THEN [m |-> shr(r, 1), e |-> e + 1] ELSE [m |-> r, e |-> e]

\* Round to nearest, ties to even
roundKept(kept, guard, sticky, e) ==
  IF guard = 1 /\ (sticky \/ kept[1] % 2 = 1) THEN carried(addLimbs(kept, <<1>>), e)
  ELSE [m |-> kept, e |-> e]

roundAt(m, e, sticky, len) ==
  IF len = 0 THEN [m |-> <<>>, e |-> 0]
  ELSE IF len <= 53 THEN [m |-> shl(m, 53 - len), e |-> e - (53 - len)]
  ELSE roundKept(shr(m, len - 53), bitAt(m, len - 53),
                 sticky \/ shl(shr(m, len - 54), len - 54) # m,
                 e + len - 53)

\* The double nearest to m * 2^e (plus a nonzero fraction below m's lowest
\* digit when sticky)
round53(m, e, sticky) == roundAt(m, e, sticky, bitLength(m))

roundSmallQuotient(qr, e) == round53(qr.q, e, qr.r # 0)

\* The double nearest to n / 100
f64OfHundredths(n) ==
  IF n = 0 THEN Zero64
  ELSE withSign(IF n < 0 THEN -1 ELSE 1,
                roundSmallQuotient(divSmall(shl(limbsOf(IF n < 0 THEN 0 - n ELSE n), 64), 100),
                                   -64))

addAligned(sx, a, sy, b, e) ==
  IF sx = sy THEN withSign(sx, round53(addLimbs(a, b), e, FALSE))
  ELSE IF a = b THEN Zero64
  ELSE IF leqLimbs(b, a) THEN withSign(sx, round53(subLimbs(a, b), e, FALSE))
  ELSE withSign(sy, round53(subLimbs(b, a), e, FALSE))

addAt(x, y, e) == addAligned(x.s, shl(x.m, x.e - e), y.s, shl(y.m, y.e - e), e)

\* x + y on finite doubles
f64add(x, y) ==
  IF x.s = 0 THEN y
  ELSE IF y.s = 0 THEN x
  ELSE addAt(x, y, IF x.e < y.e THEN x.e ELSE y.e)

f64neg(x) == [s |-> 0 - x.s, m |-> x.m, e |-> x.e]

\* x * y on finite doubles
f64mul(x, y) ==
  IF x.s = 0 \/ y.s = 0 THEN Zero64
  ELSE withSign(x.s * y.s, round53(mulLimbs(x.m, y.m), x.e + y.e, FALSE))

roundQuotient(qr, e) == round53(qr.q, e, qr.r # <<>>)

\* x / y on finite doubles, y nonzero: sixty digits below the first one
f64div(x, y) ==
  IF x.s = 0 THEN Zero64
  ELSE withSign(x.s * y.s,
                roundQuotient(divTake(x.m, y.m, 13, <<>>, quotientDigit(x.m, y.m)),
                              x.e - y.e - 60))

\* The integer nearest to a * 2^e
roundedShift(a, e) ==
  IF e >= 0 THEN intOf(shl(a, e))
  ELSE intOf(shr(addLimbs(a, shl(<<1>>, (0 - e) - 1)), 0 - e))

\* The integer nearest to 100 * x
hundredthsOf(x) == x.s * roundedShift(mulSmall(x.m, 100), x.e)

\* A number is NaN, an infinity (v its sign), null, or a finite double. A
\* finite double is held as v, the integer nearest to a hundred times its value,
\* and d: Zero64 when it is the double nearest to v / 100 (what a decimal
\* numeral of two places parses to), its binary form when it is another one.
Num(v) == [k |-> "num", v |-> v, d |-> Zero64]
NaN == [k |-> "nan", v |-> 0, d |-> Zero64]
Infinity == [k |-> "inf", v |-> 1, d |-> Zero64]
NegInfinity == [k |-> "inf", v |-> -1, d |-> Zero64]
Null == [k |-> "null", v |-> 0, d |-> Zero64]

toF64(a) == IF a.d = Zero64 THEN f64OfHundredths(a.v) ELSE a.d

fromF64At(x, v) ==
  IF f64OfHundredths(v) = x THEN Num(v) ELSE [k |-> "num", v |-> v, d |-> x]

fromF64(x) == fromF64At(x, hundredthsOf(x))

\* ToNumber of an operand of + or -: null converts to 0
ToNumber(a) == IF a.k = "null" THEN Num(0) ELSE a

\* Multiples of 0.25 of this size are doubles, and so are their sums
isQuarters(x) == x.d = Zero64 /\ x.v % 25 = 0

plusFinite(x, y) ==
  IF x = Num(0) THEN y
  ELSE IF y = Num(0) THEN x
  ELSE IF isQuarters(x) /\ isQuarters(y) THEN Num(x.v + y.v)
  ELSE fromF64(f64add(toF64(x), toF64(y)))

plusNumbers(x, y) ==
  IF x.k = "nan" \/ y.k = "nan" THEN NaN
  ELSE IF x.k = "inf" /\ y.k = "inf" THEN (IF x.v = y.v THEN x ELSE NaN)
  ELSE IF x.k = "inf" THEN x
  ELSE IF y.k = "inf" THEN y
  ELSE plusFinite(x, y)

\* a + b on numbers
Plus(a, b) == plusNumbers(ToNumber(a), ToNumber(b))

negateNumber(x) ==
  IF x.k = "nan" THEN NaN ELSE [k |-> x.k, v |-> 0 - x.v, d |-> f64neg(x.d)]

Negate(a) == negateNumber(ToNumber(a))

\* a - b on numbers
Minus(a, b) == Plus(a, Negate(b))

absNumber(x) ==
  IF x.k = "nan" THEN NaN
  ELSE IF x.k = "inf" THEN Infinity
  ELSE IF x.v < 0 \/ x.d.s < 0 THEN negateNumber(x) ELSE x

\* Math.abs
Abs(a) == absNumber(ToNumber(a))

\* isNaN
isNaN(a) == ToNumber(a).k = "nan"

lessFinite(x, y) ==
  IF x.d = Zero64 /\ y.d = Zero64 THEN x.v < y.v
  ELSE f64add(toF64(x), f64neg(toF64(y))).s < 0

lessNumbers(x, y) ==
  IF x.k = "nan" \/ y.k = "nan" THEN FALSE
  ELSE IF x.k = "inf" THEN x.v < 0 /\ ~(y.k = "inf" /\ y.v < 0)
  ELSE IF y.k = "inf" THEN y.v > 0
  ELSE lessFinite(x, y)

\* a < b on numbers (false when either is NaN)
LessThan(a, b) == lessNumbers(ToNumber(a), ToNumber(b))

timesNumbers(x, y) ==
  IF x.k = "nan" \/ y.k = "nan" THEN NaN
  ELSE IF x.k = "inf" \/ y.k = "inf"
  THEN (IF x = Num(0) \/ y = Num(0) THEN NaN
        ELSE IF lessNumbers(x, Num(0)) = lessNumbers(y, Num(0)) THEN Infinity
        ELSE NegInfinity)
  ELSE fromF64(f64mul(toF64(x), toF64(y)))

\* a * b on numbers
Times(a, b) == timesNumbers(ToNumber(a), ToNumber(b))

divideNumbers(x, y) ==
  IF x.k = "nan" \/ y.k = "nan" THEN NaN
  ELSE IF x.k = "inf" /\ y.k = "inf" THEN NaN
  ELSE IF x.k = "inf"
  THEN (IF lessNumbers(y, Num(0)) THEN negateNumber(x) ELSE x)
  ELSE IF y.k = "inf" THEN Num(0)
  ELSE IF y = Num(0)
  THEN (IF x = Num(0) THEN NaN
        ELSE IF lessNumbers(x, Num(0)) THEN NegInfinity ELSE Infinity)
  ELSE fromF64(f64div(toF64(x), toF64(y)))

\* a / b on numbers
Divide(a, b) == divideNumbers(ToNumber(a), ToNumber(b))

-----------------------------------------------------------------------------
(* Calendar: the proleptic Gregorian calendar of Date *)

\* Days from 1970-01-01 to the first day of month m (1..12) of year y, plus d - 1.
DaysFromCivil(y, m, d) ==
  LET yy == IF m <= 2 THEN y - 1 ELSE y
      era == yy \div 400
      yoe == yy - era * 400
      mp == (m + 9) % 12
      doy == (153 * mp + 2) \div 5 + d - 1
      doe == yoe * 365 + yoe \div 4 - yoe \div 100 + doy
  IN era * 146097 + doe - 719468

\* The year and month of the day z days after 1970-01-01.
MonthOfDay(z) ==
  LET z2 == z + 719468
      era == z2 \div 146097
      doe == z2 - era * 146097
      yoe == (doe - doe \div 1460 + doe \div 36524 - doe \div 146096) \div 365
      doy == doe - (365 * yoe + yoe \div 4 - yoe \div 100)
      mp == (5 * doy + 2) \div 153
      m == IF mp < 10 THEN mp + 3 ELSE mp - 9
  IN [y |-> (IF m <= 2 THEN yoe + era * 400 + 1 ELSE yoe + era * 400), m |-> m]

VARIABLES
  tz,            \* minutes the runtime's local time is ahead of UTC
  currentMonth,  \* AppState.currentMonth
  categories,    \* AppState.categories
  transactions,  \* AppState.transactions
  monthlyData,   \* AppState.monthlyData
  everIds,       \* history: every id a transaction of the store has had
  lastCall       \* history: the latest call, its argument, what its caller saw,
                 \* and the drafts the Import Normalizer returned to it


vars == <<tz, currentMonth, categories, transactions, monthlyData, everIds, lastCall>>
store == <<currentMonth, categories, transactions, monthlyData>>

-----------------------------------------------------------------------------
(* Dates in the runtime's time zone *)

ValidDate(v) == [k |-> "ok", v |-> v]
InvalidDate == [k |-> "bad", v |-> 0]

\* new Date(year, monthIndex, day): local midnight of that day, with month and
\* day overflow carried and a two-digit year taken as 19xx; Invalid Date beyond
\* 100,000,000 days from the epoch.
NewDate(year, monthIndex, day) ==
  LET y0 == IF year >= 0 /\ year <= 99 THEN 1900 + year ELSE year
      y == y0 + monthIndex \div 12
      m == (monthIndex % 12) + 1
      days == DaysFromCivil(y, m, 1) + day - 1
  IN IF days > 100000000 \/ days < -100000000 THEN InvalidDate
     ELSE ValidDate(days * 1440 - tz)

\* new Date(date).toISOString().substring(0, 7): the UTC month of a valid date
UTCMonth(date) == MonthOfDay(date.v \div 1440)

\* format(date, 'yyyy-MM'): the local month of a valid date
LocalMonth(date) == MonthOfDay((date.v + tz) \div 1440)

\* startOfMonth / endOfMonth of parse(month, 'yyyy-MM', new Date()), in local
\* time; end is the last instant before the next month starts.
getMonthRange(month) ==
  LET next == IF month.m = 12 THEN [y |-> month.y + 1, m |-> 1]
              ELSE [y |-> month.y, m |-> month.m + 1]
  IN [start |-> DaysFromCivil(month.y, month.m, 1) * 1440 - tz,
      end |-> DaysFromCivil(next.y, next.m, 1) * 1440 - tz - 1]

-----------------------------------------------------------------------------
(* Import Normalizer: parseCSVData and its helpers *)

StrIncome == <<"I", "n", "c", "o", "m", "e">>
StrAllowance == <<"A", "l", "l", "o", "w", "a", "n", "c", "e">>
StrLowerIncome == <<"i", "n", "c", "o", "m", "e">>
StrAllowanceId == <<"a", "l", "l", "o", "w", "a", "n", "c", "e", "_">>
StrOthers == <<"o", "t", "h", "e", "r", "s">>
StrOtherIncome == <<"o", "t", "h", "e", "r", "_", "i", "n", "c", "o", "m", "e">>
StrInfinity == <<"I", "n", "f", "i", "n", "i", "t", "y">>
StrRewriteMiddle == <<",", "I", "n", "c", "o", "m", "e", ",", "A", "l", "l", "o", "w", "a", "n", "c", "e", " ", ",", "A", "l", "l", "o", "w", "a", "n", "c", "e", ",">>
MsgInvalidDateFormat == <<"I", "n", "v", "a", "l", "i", "d", " ", "d", "a", "t", "e", " ", "f", "o", "r", "m", "a", "t", ":", " ">>
MsgInvalidDateComponents == <<"I", "n", "v", "a", "l", "i", "d", " ", "d", "a", "t", "e", " ", "c", "o", "m", "p", "o", "n", "e", "n", "t", "s", ":", " ">>
MsgInvalidDate == <<"I", "n", "v", "a", "l", "i", "d", " ", "d", "a", "t", "e", ":", " ">>
MsgErrorImporting == <<"E", "r", "r", "o", "r", " ", "i", "m", "p", "o", "r", "t", "i", "n", "g", ":", " ">>

\* String.prototype.trimStart, which parseInt applies to its argument
trimStart(s) ==
  IF IsBlank(s) THEN <<>>
  ELSE SubSeq(s, CHOOSE i \in 1..Len(s) :
                   /\ s[i] \notin WhiteSpace
                   /\ \A j \in 1..(i - 1) : s[j] \in WhiteSpace, Len(s))

\* The longest run of decimal digits s starts with
leadingDigits(s) ==
  SubSeq(s, 1, CHOOSE k \in 0..Len(s) :
                 /\ \A i \in 1..k : s[i] \in Digits
                 /\ (k = Len(s) \/ s[k + 1] \notin Digits))

parseIntDigits(digits, negative) ==
  IF digits = <<>> THEN [nan |-> TRUE, v |-> 0]
  ELSE [nan |-> FALSE, v |-> IF negative THEN 0 - DecVal(digits) ELSE DecVal(digits)]

parseIntSigned(t) ==
  parseIntDigits(leadingDigits(IF t # <<>> /\ t[1] \in {"+", "-"} THEN Tail(t) ELSE t),
                 t # <<>> /\ t[1] = "-")

\* parseInt(s): leading white space, an optional sign, then the longest run of
\* decimal digits; NaN when there is none. (A 0x prefix, which parseInt reads
\* as hexadecimal, does not occur in the modelled inputs.)
parseInt(s) == parseIntSigned(trimStart(s))

\* The value, in hundredths, of the parts of an unsigned numeral split at "."
NumberOfParts(parts, sign) ==
  IF /\ Len(parts) <= 2
     /\ \A i \in 1..Len(parts) : AllDigits(parts[i])
     /\ \E i \in 1..Len(parts) : parts[i] # <<>>
  THEN Num(sign * (100 * DecVal(parts[1])
                   + (IF Len(parts) = 2
                      THEN DecVal(SubSeq(parts[2] \o <<"0", "0">>, 1, 2))
                      ELSE 0)))
  ELSE NaN

NumberOfUnsigned(body, sign) ==
  IF body = StrInfinity THEN (IF sign < 0 THEN NegInfinity ELSE Infinity)
  ELSE NumberOfParts(split(body, "."), sign)

NumberOfTrimmed(t) ==
  IF t = <<>> THEN Num(0)
  ELSE NumberOfUnsigned(IF t[1] \in {"+", "-"} THEN Tail(t) ELSE t,
                        IF t[1] = "-" THEN -1 ELSE 1)

\* Number(s), in hundredths: white space trimmed, the empty string is 0, an
\* optional sign, then Infinity or decimal digits with an optional fraction.
\* (Exponents and the 0x, 0o and 0b prefixes do not occur in the modelled
\* inputs, nor do fractions of more than two digits.)
NumberOf(s) == NumberOfTrimmed(trim(s))

\* s is n digits, a comma and three digits
IsGrouped(s, n) ==
  /\ Len(s) = n + 4
  /\ AllDigits(SubSeq(s, 1, n))
  /\ s[n + 1] = ","
  /\ AllDigits(SubSeq(s, n + 2, n + 4))

\* The last n characters of s, <<>> when s is shorter
lastChars(s, n) == IF Len(s) >= n THEN SubSeq(s, Len(s) - n + 1, Len(s)) ELSE <<>>

\* line.match(/(\d{1,2},\d{3})$/): the matched text, <<>> when there is none
trailingGroupedAmount(line) ==
  IF IsGrouped(lastChars(line, 6), 2) THEN lastChars(line, 6)
  ELSE IF IsGrouped(lastChars(line, 5), 1) THEN lastChars(line, 5)
  ELSE <<>>

\* /^\d{4}-\d{1,2}-\d{1,2}$/ on the parts of the date text split at "-"
IsDashedDateParts(p) ==
  /\ Len(p) = 3
  /\ AllDigits(p[1]) /\ Len(p[1]) = 4
  /\ AllDigits(p[2]) /\ Len(p[2]) \in 1..2
  /\ AllDigits(p[3]) /\ Len(p[3]) \in 1..2

IsDashedDate(s) == IsDashedDateParts(split(s, "-"))

\* /^\d{4}-\d{1,2}-\d{1,2},Income,Allowance ,,\d{2},\d{3}$/ on the parts of the
\* line split at ","
matchesAllowanceParts(p) ==
  /\ Len(p) = 6
  /\ IsDashedDate(p[1])
  /\ p[2] = StrIncome
  /\ p[3] = StrAllowance \o <<" ">>
  /\ p[4] = <<>>
  /\ AllDigits(p[5]) /\ Len(p[5]) = 2
  /\ AllDigits(p[6]) /\ Len(p[6]) = 3

\* line.match(/^\d{4}-\d{1,2}-\d{1,2},Income,Allowance ,,\d{2},\d{3}$/)
matchesAllowanceLine(line) == matchesAllowanceParts(split(line, ","))

\* A direct fix that keeps only the last group of the amount
fixAllowanceParts_lastGroup(p, line) ==
  IF matchesAllowanceParts(p) THEN p[1] \o StrRewriteMiddle \o p[6] ELSE line

fixAllowanceParts(p, line) ==
  IF matchesAllowanceParts(p) THEN p[1] \o StrRewriteMiddle \o (p[5] \o p[6]) ELSE line

\* The "direct fix" of a line of the shape date,Income,Allowance ,,XX,XXX
fixAllowanceLine(line) == fixAllowanceParts(split(line, ","), line)

\* The quote-aware field splitter: a quote toggles inQuotes and is dropped, a
\* comma outside quotes ends the field.
RECURSIVE splitFieldsFrom(_, _, _, _)
splitFieldsFrom(line, i, inQuotes, currentField) ==
  IF i > Len(line) THEN <<currentField>>
  ELSE IF line[i] = "\"" THEN splitFieldsFrom(line, i + 1, ~inQuotes, currentField)
  ELSE IF line[i] = "," /\ ~inQuotes
       THEN <<currentField>> \o splitFieldsFrom(line, i + 1, inQuotes, <<>>)
  ELSE splitFieldsFrom(line, i + 1, inQuotes, Append(currentField, line[i]))

splitFields(line) == splitFieldsFrom(line, 1, FALSE, <<>>)

\* while (fields.length < n) fields.push('')
padFields(fields, n) ==
  IF Len(fields) >= n THEN fields
  ELSE fields \o [i \in 1..(n - Len(fields)) |-> <<>>]

\* fields[4] = fullAmount, on fields of length 4 or more
setAmountField(padded, fullAmount) ==
  IF Len(padded) = 4 THEN Append(padded, fullAmount)
  ELSE [padded EXCEPT ![5] = fullAmount]

repairWithMatch(fields, amountMatch) ==
  IF /\ Len(fields) >= 3
     /\ fields[2] = StrIncome
     /\ trim(fields[3]) = StrAllowance
     /\ amountMatch # <<>>
  THEN setAmountField(padFields(fields, 4), replaceFirstComma(amountMatch))
  ELSE fields

\* The "special handling for allowance entries" of the split fields
repairAllowanceFields(fields, line) == repairWithMatch(fields, trailingGroupedAmount(line))

\* The five fields the data of a line is extracted from, after the direct fix
rowFields(line) == padFields(repairAllowanceFields(splitFields(line), line), 5)

dateResult(dateObj, dateStr) ==
  IF dateObj.k = "bad"
  THEN [failed |-> TRUE, date |-> InvalidDate, message |-> MsgInvalidDate \o dateStr]
  ELSE [failed |-> FALSE, date |-> dateObj, message |-> <<>>]

dateOfComponents(year, month, day, dateStr) ==
  IF year.nan \/ month.nan \/ day.nan
  THEN [failed |-> TRUE, date |-> InvalidDate, message |-> MsgInvalidDateComponents \o dateStr]
  ELSE dateResult(NewDate(year.v, month.v - 1, day.v), dateStr)

dateOfParts(dateParts, dateStr) ==
  IF Len(dateParts) # 3
  THEN [failed |-> TRUE, date |-> InvalidDate, message |-> MsgInvalidDateFormat \o dateStr]
  ELSE dateOfComponents(parseInt(dateParts[1]), parseInt(dateParts[2]),
                        parseInt(dateParts[3]), dateStr)

\* Parse date (format: YYYY-M-D): the date, or the message of the error thrown
parseRowDate(dateStr) == dateOfParts(split(dateStr, "-"), dateStr)

\* A type that compares the label with 'Income' as written
rowType_exact(typeStr) == IF typeStr = StrIncome THEN "income" ELSE "expense"

\* Determine transaction type
rowType(typeStr) == IF toLowerCase(typeStr) = StrLowerIncome THEN "income" ELSE "expense"

\* categoryStr.toLowerCase().replace(/\s+/g, '_')
rowCategoryId(categoryStr) == replaceSpaceRuns(toLowerCase(categoryStr))

\* If no category, use default
categoryIdOrDefault(derivedId, type) ==
  IF derivedId # <<>> THEN derivedId
  ELSE IF type = "income" THEN StrOtherIncome ELSE StrOthers

\* If still NaN, log warning and use 0
orZero(amount) == IF isNaN(amount) THEN Num(0) ELSE amount

\* If it's still NaN, try another approach
orDigitsOnly(amount, cleanedAmountStr) ==
  IF isNaN(amount) THEN orZero(Abs(NumberOf(keepDigitsDotMinus(cleanedAmountStr))))
  ELSE amount

parseCleanedAmount(cleanedAmountStr) ==
  IF cleanedAmountStr = <<>> THEN Num(0)
  ELSE orDigitsOnly(Abs(NumberOf(removeCommas(cleanedAmountStr))), cleanedAmountStr)

\* Parse amount: commas removed, Math.abs(Number(..)); a second attempt on the
\* digits, points and minus signs alone; 0 when that is NaN too.
parseAmount(amountStr) == parseCleanedAmount(trim(amountStr))

\* if (type === 'income' && categoryId === 'allowance_' && amount < 1000)
AllowanceThreshold == 1000

largerOf(amount, parsedAmount) ==
  IF ~isNaN(parsedAmount) /\ LessThan(amount, parsedAmount) THEN parsedAmount ELSE amount

correctWithMatch(type, categoryId, amount, amountMatch) ==
  IF /\ type = "income"
     /\ categoryId = StrAllowanceId
     /\ LessThan(amount, Num(100 * AllowanceThreshold))
     /\ amountMatch # <<>>
  THEN largerOf(amount, NumberOf(replaceFirstComma(amountMatch)))
  ELSE amount

\* Special case for Allowance entries: a larger trailing grouped number wins
correctAllowanceAmount(type, categoryId, amount, line) ==
  correctWithMatch(type, categoryId, amount, trailingGroupedAmount(line))

\* The keys of getCategoryIcon's iconMap
IconMapKeys ==
    {<<"f", "o", "o", "d">>,
     <<"t", "r", "a", "n", "s", "p", "o", "r", "t", "a", "t", "i", "o", "n">>,
     <<"e", "n", "t", "e", "r", "t", "a", "i", "n", "m", "e", "n", "t">>,
     <<"s", "h", "o", "p", "p", "i", "n", "g">>,
     <<"u", "t", "i", "l", "i", "t", "i", "e", "s">>,
     <<"h", "o", "u", "s", "i", "n", "g">>,
     <<"h", "e", "a", "l", "t", "h">>,
     <<"e", "d", "u", "c", "a", "t", "i", "o", "n">>,
     <<"g", "i", "f", "t", "s">>,
     <<"b", "i", "l", "l", "s">>,
     <<"t", "r", "a", "v", "e", "l">>,
     <<"c", "l", "o", "t", "h", "i", "n", "g">>,
     <<"s", "e", "l", "f", "_", "c", "a", "r", "e">>,
     <<"h", "o", "m", "e">>,
     <<"s", "a", "l", "a", "r", "y">>,
     <<"f", "r", "e", "e", "l", "a", "n", "c", "e">>,
     <<"i", "n", "v", "e", "s", "t", "m", "e", "n", "t", "s">>,
     <<"a", "l", "l", "o", "w", "a", "n", "c", "e">>,
     <<"r", "e", "n", "t", "a", "l">>}

\* getCategoryIcon: the glyph the table of utils/index.ts holds for the id (the
\* table's glyphs are stored mis-encoded, so they are not the store's glyphs),
\* the generic glyph for any other id.
getCategoryIcon(categoryId) ==
  IF categoryId \in IconMapKeys THEN <<"utils", categoryId>> ELSE <<"utils", <<>>>>

\* A catch block that returns an income of the row's worth
errorTransaction_income(message, now) ==
  [amount |-> Num(0),
   description |-> MsgErrorImporting \o message,
   date |-> ValidDate(now),
   categoryId |-> StrOtherIncome,
   type |-> "income"]

\* The default transaction the catch block returns
errorTransaction(message, now) ==
  [amount |-> Num(0),
   description |-> MsgErrorImporting \o message,
   date |-> ValidDate(now),
   categoryId |-> StrOthers,
   type |-> "expense"]

\* The result of a row whose date parsed: its transaction, and the category it
\* pushes to newCategories (pushed = FALSE when it pushes none)
rowResult(date, type, derivedId, fields, line, existingCategoryIds) ==
  [transaction |->
     [amount |-> correctAllowanceAmount(type, categoryIdOrDefault(derivedId, type),
                                        parseAmount(fields[5]), line),
      description |-> fields[4],
      date |-> date,
      categoryId |-> categoryIdOrDefault(derivedId, type),
      type |-> type],
   pushed |-> derivedId # <<>> /\ derivedId \notin existingCategoryIds,
   category |-> [id |-> derivedId, name |-> fields[3],
                 icon |-> getCategoryIcon(derivedId), type |-> type]]

processParsed(parsed, fields, line, existingCategoryIds, now) ==
  IF parsed.failed
  THEN [transaction |-> errorTransaction(parsed.message, now),
        pushed |-> FALSE,
        category |-> [id |-> <<>>, name |-> <<>>, icon |-> <<>>, type |-> "expense"]]
  ELSE rowResult(parsed.date, rowType(fields[2]), rowCategoryId(fields[3]),
                 fields, line, existingCategoryIds)

processFields(fields, line, existingCategoryIds, now) ==
  processParsed(parseRowDate(fields[1]), fields, line, existingCategoryIds, now)

processFixedLine(line, existingCategoryIds, now) ==
  processFields(rowFields(line), line, existingCategoryIds, now)

\* One iteration of dataLines.map. existingCategoryIds is the set of ids seen
\* earlier in this call; now is the instant new Date() returns in the catch
\* block.
processLine(rawLine, existingCategoryIds, now) ==
  processFixedLine(fixAllowanceLine(rawLine), existingCategoryIds, now)

\* The loop's state after a row: the ids seen, the transactions and the new
\* categories so far
afterRow(r, existingCategoryIds, done, newCategories) ==
  [existingCategoryIds |-> IF r.pushed THEN existingCategoryIds \cup {r.category.id}
                           ELSE existingCategoryIds,
   done |-> Append(done, r.transaction),
   newCategories |-> IF r.pushed THEN Append(newCategories, r.category)
                     ELSE newCategories]

RECURSIVE mapDataLines(_, _, _)
mapDataLines(dataLines, now, acc) ==
  IF dataLines = <<>> THEN acc
  ELSE mapDataLines(Tail(dataLines), now,
                    afterRow(processLine(Head(dataLines), acc.existingCategoryIds, now),
                             acc.existingCategoryIds, acc.done, acc.newCategories))

\* Filter out any invalid transactions
validTransaction(t) == ~isNaN(t.amount) /\ t.date.k = "ok"

\* Skip the header row
\* A header skip that drops the first line only when it is the header row
dataLinesOf_headed(lines) ==
  IF lines # <<>> /\ lines[1] = <<"D", "a", "t", "e", ",", "T", "y", "p", "e", ",", "C", "a", "t", "e", "g", "o", "r", "y", ",", "M", "e", "m", "o", ",", "A", "m", "o", "u", "n", "t">>
  THEN Tail(lines) ELSE lines

dataLinesOf(lines) == IF lines = <<>> THEN <<>> ELSE Tail(lines)

parsedResult(mapped) ==
  [transactions |-> SelectSeq(mapped.done, validTransaction),
   newCategories |-> mapped.newCategories]

\* parseCSVData(csvData), with now the instant of the call
parseCSVData(csvData, now) ==
  parsedResult(
    mapDataLines(dataLinesOf(SelectSeq(split(csvData, "\n"), LAMBDA line : ~IsBlank(line))),
                 now,
                 [existingCategoryIds |-> {}, done |-> <<>>, newCategories |-> <<>>]))

-----------------------------------------------------------------------------
(* Aggregation Engine *)

\* .reduce((sum, t) => sum + t.amount, 0)
RECURSIVE sumAmounts(_)
sumAmounts(ts) ==
  IF ts = <<>> THEN Num(0)
  ELSE Plus(sumAmounts(SubSeq(ts, 1, Len(ts) - 1)), ts[Len(ts)].amount)

\* A range that leaves out its last instant
inMonthRange_open(t, month) ==
  /\ t.date.k = "ok"
  /\ t.date.v >= getMonthRange(month).start
  /\ t.date.v < getMonthRange(month).end

\* transactionDate >= start && transactionDate <= end (false for Invalid Date)
inMonthRange(t, month) ==
  /\ t.date.k = "ok"
  /\ t.date.v >= getMonthRange(month).start
  /\ t.date.v <= getMonthRange(month).end

\* A balance that adds the expenses
calculateMonthData_added(ts, month) ==
  LET monthTransactions == SelectSeq(ts, LAMBDA t : inMonthRange(t, month))
      income == sumAmounts(SelectSeq(monthTransactions, LAMBDA t : t.type = "income"))
      expenses == sumAmounts(SelectSeq(monthTransactions, LAMBDA t : t.type = "expense"))
  IN [income |-> income,
      expenses |-> expenses,
      balance |-> Plus(income, expenses),
      transactions |-> monthTransactions]

calculateMonthData(ts, month) ==
  LET monthTransactions == SelectSeq(ts, LAMBDA t : inMonthRange(t, month))
      income == sumAmounts(SelectSeq(monthTransactions, LAMBDA t : t.type = "income"))
      expenses == sumAmounts(SelectSeq(monthTransactions, LAMBDA t : t.type = "expense"))
  IN [income |-> income,
      expenses |-> expenses,
      balance |-> Minus(income, expenses),
      transactions |-> monthTransactions]

-----------------------------------------------------------------------------
(* State Store *)

Category(id, name, type) == [id |-> id, name |-> name, icon |-> <<"store", id>>, type |-> type]

defaultCategories ==
  <<Category(<<"f", "o", "o", "d">>, <<"F", "o", "o", "d">>, "expense"),
    Category(<<"t", "r", "a", "n", "s", "p", "o", "r", "t", "a", "t", "i", "o", "n">>, <<"T", "r", "a", "n", "s", "p", "o", "r", "t", "a", "t", "i", "o", "n">>, "expense"),
    Category(<<"e", "n", "t", "e", "r", "t", "a", "i", "n", "m", "e", "n", "t">>, <<"E", "n", "t", "e", "r", "t", "a", "i", "n", "m", "e", "n", "t">>, "expense"),
    Category(<<"s", "h", "o", "p", "p", "i", "n", "g">>, <<"S", "h", "o", "p", "p", "i", "n", "g">>, "expense"),
    Category(<<"u", "t", "i", "l", "i", "t", "i", "e", "s">>, <<"U", "t", "i", "l", "i", "t", "i", "e", "s">>, "expense"),
    Category(<<"h", "o", "u", "s", "i", "n", "g">>, <<"H", "o", "u", "s", "i", "n", "g">>, "expense"),
    Category(<<"h", "e", "a", "l", "t", "h">>, <<"H", "e", "a", "l", "t", "h">>, "expense"),
    Category(<<"e", "d", "u", "c", "a", "t", "i", "o", "n">>, <<"E", "d", "u", "c", "a", "t", "i", "o", "n">>, "expense"),
    Category(<<"g", "i", "f", "t", "s">>, <<"G", "i", "f", "t", "s">>, "expense"),
    Category(<<"o", "t", "h", "e", "r", "s">>, <<"O", "t", "h", "e", "r", "s">>, "expense"),
    Category(<<"s", "a", "l", "a", "r", "y">>, <<"S", "a", "l", "a", "r", "y">>, "income"),
    Category(<<"f", "r", "e", "e", "l", "a", "n", "c", "e">>, <<"F", "r", "e", "e", "l", "a", "n", "c", "e">>, "income"),
    Category(<<"i", "n", "v", "e", "s", "t", "m", "e", "n", "t", "s">>, <<"I", "n", "v", "e", "s", "t", "m", "e", "n", "t", "s">>, "income"),
    Category(<<"o", "t", "h", "e", "r", "_", "i", "n", "c", "o", "m", "e">>, <<"O", "t", "h", "e", "r", " ", "I", "n", "c", "o", "m", "e">>, "income")>>

\* A recalculation that never throws
recalculateThrows_never(ts) == FALSE

\* new Date(t.date).toISOString() throws a RangeError on an Invalid Date
recalculateThrows(ts) == \E i \in 1..Len(ts) : ts[i].date.k = "bad"

\* Month keys without "always include current month"
monthKeys_used(ts, month) == {UTCMonth(ts[i].date) : i \in 1..Len(ts)}

\* The month keys recalculateMonthlyData computes an aggregate for
monthKeys(ts, month) == {UTCMonth(ts[i].date) : i \in 1..Len(ts)} \cup {month}

\* A cache patched incrementally: only the selected month and months new to the
\* cache are computed, the other aggregates are carried over
recalculateMonthlyData_patched(ts, month) ==
  [m \in monthKeys(ts, month) |->
     IF m \in DOMAIN monthlyData /\ m # month
     THEN monthlyData[m]
     ELSE calculateMonthData(ts, m)]

\* recalculateMonthlyData, for a list on which it does not throw
recalculateMonthlyData(ts, month) ==
  [m \in monthKeys(ts, month) |-> calculateMonthData(ts, m)]

idsOf(ts) == {ts[i].id : i \in 1..Len(ts)}

withId(draft, id) ==
  [f \in DOMAIN draft \cup {"id"} |-> IF f = "id" THEN id ELSE draft[f]]

\* An update that re-creates the transaction under the other id
spread_reissued(t, updatedFields) ==
  [f \in DOMAIN t \cup DOMAIN updatedFields |->
     IF f = "id" THEN (IF t.id = 1 THEN 2 ELSE 1)
     ELSE IF f \in DOMAIN updatedFields THEN updatedFields[f] ELSE t[f]]

\* { ...t, ...updatedFields }
spread(t, updatedFields) ==
  [f \in DOMAIN t \cup DOMAIN updatedFields |->
     IF f \in DOMAIN updatedFields THEN updatedFields[f] ELSE t[f]]

\* The record of a call: drafts is what the Import Normalizer returned to an
\* importCSV, <<>> for any other call
Call(op, arg, rejected, shown) ==
  [op |-> op, arg |-> arg, rejected |-> rejected, shown |-> shown, drafts |-> <<>>]
NothingShown == [success |-> FALSE, transactions |-> -1, categories |-> -1]

-----------------------------------------------------------------------------
(* Inputs *)

\* Offsets of the runtime's local time from UTC, in minutes
TimeZones == {0, 330}

\* The instant new Date() returns: 2024-02-29T20:00Z
Clock == {DaysFromCivil(2024, 2, 29) * 1440 + 1200}

\* The months the month selector is moved to
Months == {[y |-> 2024, m |-> 2], [y |-> 2024, m |-> 3]}

\* The strings generateId() returns: Math.random().toString(36).substring(2, 9)
\* is one of the strings of its range, whichever the generator's state gives.
IdSpace == {1, 2}

StrLunch == <<"L", "u", "n", "c", "h">>
StrFood == <<"f", "o", "o", "d">>
StrSalary == <<"s", "a", "l", "a", "r", "y">>

\* What the transaction form or another caller passes to addTransaction: a day
\* picked in the date picker (local midnight), and a date string that does not
\* parse.
Drafts ==
  {[amount |-> Num(1250), description |-> StrLunch, date |-> NewDate(2024, 2, 1),
    categoryId |-> StrFood, type |-> "expense"],
   [amount |-> Num(300), description |-> <<>>, date |-> InvalidDate,
    categoryId |-> StrFood, type |-> "expense"]}

\* What is passed to updateTransaction: the five fields the form submits, with
\* an amount text that parseFloat reads as NaN and the last minute of a month as
\* the date; and a date string that does not parse.
Updates ==
  {[amount |-> NaN, description |-> <<>>,
    date |-> ValidDate(NewDate(2024, 2, 1).v - 1),
    categoryId |-> StrSalary, type |-> "income"],
   [date |-> InvalidDate]}

\* The .csv files the user can pick
CsvInputs ==
  <<<<"D", "a", "t", "e", ",", "T", "y", "p", "e", ",", "C", "a", "t", "e", "g", "o", "r", "y", ",", "M", "e", "m", "o", ",", "A", "m", "o", "u", "n", "t", "\n", "2", "0", "2", "4", "-", "3", "-", "1", ",", "E", "x", "p", "e", "n", "s", "e", ",", "S", "e", "l", "f", " ", "C", "a", "r", "e", ",", "L", "u", "n", "c", "h", ",", "1", "2", ".", "5", "0">>,
    <<"D", "a", "t", "e", ",", "T", "y", "p", "e", ",", "C", "a", "t", "e", "g", "o", "r", "y", ",", "M", "e", "m", "o", ",", "A", "m", "o", "u", "n", "t", "\n", "2", "0", "2", "4", "-", "3", "-", "1", "5", ",", "I", "n", "c", "o", "m", "e", ",", "S", "a", "l", "a", "r", "y", ",", ",", "5", "0", "0", "0", "\n", "n", "o", "t", "-", "a", "-", "d", "a", "t", "e", ",", "I", "n", "c", "o", "m", "e", ",", "S", "a", "l", "a", "r", "y", ",", ",", "1", "0", "0">>>>

\* The rows of the texts parseCSVData is applied to on its own
NormalizerRows ==
  <<<<"2", "0", "2", "4", "-", "3", "-", "1", "5", ",", "E", "x", "p", "e", "n", "s", "e", ",", "F", "o", "o", "d", ",", "L", "u", "n", "c", "h", ",", "1", "2", ".", "5", "0">>,
    <<"2", "0", "2", "4", "-", "3", "-", "1", "5", ",", "I", "n", "c", "o", "m", "e", ",", "S", "a", "l", "a", "r", "y", ",", ",", "5", "0", "0", "0">>,
    <<"n", "o", "t", "-", "a", "-", "d", "a", "t", "e", ",", "I", "n", "c", "o", "m", "e", ",", "S", "a", "l", "a", "r", "y", ",", ",", "1", "0", "0">>,
    <<"2", "0", "2", "4", "-", "3", "-", "1", "5", ",", "i", "n", "c", "o", "m", "e", ",", "S", "a", "l", "a", "r", "y", ",", ",", "5", "0", "0", "0">>,
    <<"2", "0", "2", "4", "-", "3", "-", "1", "5", ",", "I", "N", "C", "O", "M", "E", ",", "S", "a", "l", "a", "r", "y", ",", ",", "5", "0", "0", "0">>,
    <<"2", "0", "2", "4", "-", "3", "-", "1", "5", ",", "E", "x", "p", "e", "n", "s", "e", "s", ",", "F", "o", "o", "d", ",", "L", "u", "n", "c", "h", ",", "1", "2", ".", "5", "0">>,
    <<"2", "0", "2", "4", "-", "3", "-", "1", "5", ",", ",", "F", "o", "o", "d", ",", "L", "u", "n", "c", "h", ",", "1", "2", ".", "5", "0">>,
    <<"2", "0", "2", "4", "/", "3", "/", "1", "5", ",", "I", "n", "c", "o", "m", "e", ",", "S", "a", "l", "a", "r", "y", ",", ",", "1", "0", "0">>,
    <<"2", "0", "2", "4", "-", "3", "-", "1", "5", ",", " ", "I", "n", "c", "o", "m", "e", ",", "S", "a", "l", "a", "r", "y", ",", ",", "5">>,
    <<"2", "0", "2", "4", "-", "1", "3", "-", "4", "5", ",", "E", "x", "p", "e", "n", "s", "e", ",", "F", "o", "o", "d", ",", "L", "u", "n", "c", "h", ",", "1", "2", ".", "5", "0">>,
    <<"2", "0", "2", "4", "-", "3", "-", "1", "5", ",", "I", "n", "c", "o", "m", "e", ",", "S", "a", "l", "a", "r", "y", ",", ",", "I", "n", "f", "i", "n", "i", "t", "y">>,
    <<"2", "0", "2", "4", "-", "3", "-", "1", "5", ",", "I", "n", "c", "o", "m", "e", ",", "A", "l", "l", "o", "w", "a", "n", "c", "e", ",", "W", "e", "e", "k", " ", "1", "2", ",", "5", "0", "0">>,
    <<"2", "0", "2", "4", "-", "3", "-", "1", "5", ",", "I", "n", "c", "o", "m", "e", ",", "A", "l", "l", "o", "w", "a", "n", "c", "e", " ", ",", ",", "4", "0", ",", "0", "0", "0">>,
    <<"2", "0", "2", "4", "-", "3", "-", "1", "5", ",", "E", "x", "p", "e", "n", "s", "e", ",", "F", "o", "o", "d", ",", "\"", "L", "u", "n", "c", "h", ",", " ", "t", "e", "a", "\"", ",", "1", "2", ".", "5", "0">>,
    <<"2", "0", "2", "4", "-", "1", "2", "-", "1", ",", "I", "n", "c", "o", "m", "e", ",", "A", "l", "l", "o", "w", "a", "n", "c", "e", " ", ",", ",", "0", "5", ",", "2", "5", "0">>>>

\* The header row
CsvHeader == <<"D", "a", "t", "e", ",", "T", "y", "p", "e", ",", "C", "a", "t", "e", "g", "o", "r", "y", ",", "M", "e", "m", "o", ",", "A", "m", "o", "u", "n", "t">>

\* The largest number of data rows of such a text
MaxRows == 2

\* The texts, each as the list of its rows' positions in NormalizerRows
RowLists == UNION {[1..n -> 1..Len(NormalizerRows)] : n \in 0..MaxRows}

\* The text of a header row and the given rows
csvText(rows) ==
  Join(<<CsvHeader>> \o [i \in 1..Len(rows) |-> NormalizerRows[rows[i]]], <<"\n">>)

\* How the lines of a text are laid out: a header row and the rows; the same
\* with blank lines before, between and after them; or the rows after a first
\* line that is itself a data row
Layouts == {"plain", "blanks", "headerless"}

csvTextIn(rows, layout) ==
  IF layout = "blanks"
  THEN <<"\n">>
       \o Join(<<CsvHeader>> \o [i \in 1..Len(rows) |-> NormalizerRows[rows[i]]],
               <<"\n", " ", "\t", "\n">>)
       \o <<"\n", "\n">>
  ELSE IF layout = "headerless"
  THEN Join(<<NormalizerRows[1]>> \o [i \in 1..Len(rows) |-> NormalizerRows[rows[i]]], <<"\n">>)
  ELSE csvText(rows)

StrTransportation == <<"t", "r", "a", "n", "s", "p", "o", "r", "t", "a", "t", "i", "o", "n">>
StrFreelance == <<"f", "r", "e", "e", "l", "a", "n", "c", "e">>

LedgerEntry(id, amount, date, categoryId, type) ==
  [id |-> id, amount |-> amount, description |-> <<>>, date |-> date,
   categoryId |-> categoryId, type |-> type]

\* The transactions the lists handed to calculateMonthData are made of: amounts
\* of 0.10, 0.20 and 0.30 in mid-March, one at the first instant of March, one
\* at its last, and one at the last instant of February (local time).
LedgerEntries ==
  <<LedgerEntry(1, Num(10), NewDate(2024, 2, 15), StrFood, "expense"),
    LedgerEntry(2, Num(20), NewDate(2024, 2, 15), StrTransportation, "expense"),
    LedgerEntry(3, Num(30), NewDate(2024, 2, 15), StrFood, "expense"),
    LedgerEntry(4, Num(100), NewDate(2024, 2, 1), StrSalary, "income"),
    LedgerEntry(5, Num(200), ValidDate(NewDate(2024, 3, 1).v - 1), StrFreelance, "income"),
    LedgerEntry(6, Num(500), ValidDate(NewDate(2024, 2, 1).v - 1), StrFood, "expense")>>

\* The largest length of such a list
MaxList == 3

\* The lists, each as the positions in LedgerEntries of its members
Ledgers ==
  UNION {{l \in [1..n -> 1..Len(LedgerEntries)] :
            \A i, j \in 1..n : l[i] = l[j] => i = j} : n \in 0..MaxList}

ledger(l) == [i \in 1..Len(l) |-> LedgerEntries[l[i]]]

\* The .json files the user can pick, as what JSON.parse makes of them: kind is
\* "unparsable" when JSON.parse throws; txk and ck tell whether the transactions
\* and categories fields are absent, null, a list, or a value that is no list.
Doc(kind, txk, tx, ck, cats) == [kind |-> kind, txk |-> txk, tx |-> tx, ck |-> ck, cats |-> cats]

JsonTx(id, amount, date) ==
  [id |-> id, amount |-> amount, description |-> <<>>, date |-> date,
   categoryId |-> StrFood, type |-> "expense"]

JsonInputs ==
  <<Doc("unparsable", "absent", <<>>, "absent", <<>>),
    Doc("object", "absent", <<>>, "list", <<>>),
    Doc("object", "nonlist", <<>>, "absent", <<>>),
    Doc("object", "list", <<JsonTx(1, Num(-500), NewDate(2024, 2, 1))>>, "absent", <<>>),
    Doc("object", "list", <<JsonTx(1, Num(-500), NewDate(2024, 2, 1))>>, "null", <<>>),
    Doc("object", "list", <<>>, "list",
        Append(defaultCategories, Category(StrFood, StrLunch, "income"))),
    Doc("object", "list", <<JsonTx(2, Num(100), InvalidDate)>>, "list", <<>>)>>

-----------------------------------------------------------------------------
(* Store operations *)

\* JSON.stringify writes null for NaN and for the infinities
stringifyNumber(a) == IF a.k \in {"nan", "inf"} THEN Null ELSE a

stringifyTransaction(t) == [t EXCEPT !.amount = stringifyNumber(t.amount)]

\* exportData(): JSON.stringify({ transactions, categories }), as JSON.parse
\* reads it back
exportData ==
  Doc("object", "list",
      [i \in 1..Len(transactions) |-> stringifyTransaction(transactions[i])],
      "list", categories)

\* addTransaction(transaction), with id what generateId() returns
addTransaction(transaction, id) ==
  LET newTransaction == withId(transaction, id)
      ts == Append(transactions, newTransaction)
  IN /\ Len(transactions) < MaxTx
     /\ IF recalculateThrows(ts)
        THEN /\ UNCHANGED <<store, everIds>>
             /\ lastCall' = Call("addTransaction", 0, TRUE, NothingShown)
        ELSE /\ transactions' = ts
             /\ monthlyData' = recalculateMonthlyData(ts, currentMonth)
             /\ UNCHANGED <<currentMonth, categories>>
             /\ everIds' = everIds \cup {id}
             /\ lastCall' = Call("addTransaction", 0, FALSE, NothingShown)
     /\ UNCHANGED tz

\* A deletion that removes only the first transaction with the id
deleteTransaction_first(id) ==
  LET first == CHOOSE i \in 1..(Len(transactions) + 1) :
                 /\ i <= Len(transactions) => transactions[i].id = id
                 /\ \A j \in 1..(i - 1) : transactions[j].id # id
      ts == [i \in 1..(Len(transactions) - (IF first <= Len(transactions) THEN 1 ELSE 0)) |->
               IF i < first THEN transactions[i] ELSE transactions[i + 1]]
  IN /\ transactions' = ts
     /\ monthlyData' = recalculateMonthlyData(ts, currentMonth)
     /\ UNCHANGED <<currentMonth, categories>>
     /\ lastCall' = Call("deleteTransaction", id, FALSE, NothingShown)
     /\ UNCHANGED <<tz, everIds>>

deleteTransaction(id) ==
  LET ts == SelectSeq(transactions, LAMBDA t : t.id # id)
  IN /\ IF recalculateThrows(ts)
        THEN /\ UNCHANGED store
             /\ lastCall' = Call("deleteTransaction", id, TRUE, NothingShown)
        ELSE /\ transactions' = ts
             /\ monthlyData' = recalculateMonthlyData(ts, currentMonth)
             /\ UNCHANGED <<currentMonth, categories>>
             /\ lastCall' = Call("deleteTransaction", id, FALSE, NothingShown)
     /\ UNCHANGED <<tz, everIds>>

updateTransaction(id, updatedFields) ==
  LET ts == [i \in 1..Len(transactions) |->
               IF transactions[i].id = id THEN spread(transactions[i], updatedFields)
               ELSE transactions[i]]
  IN /\ IF recalculateThrows(ts)
        THEN /\ UNCHANGED <<store, everIds>>
             /\ lastCall' = Call("updateTransaction", id, TRUE, NothingShown)
        ELSE /\ transactions' = ts
             /\ monthlyData' = recalculateMonthlyData(ts, currentMonth)
             /\ UNCHANGED <<currentMonth, categories>>
             /\ everIds' = everIds \cup idsOf(ts)
             /\ lastCall' = Call("updateTransaction", id, FALSE, NothingShown)
     /\ UNCHANGED tz

setCurrentMonth(month) ==
  /\ IF recalculateThrows(transactions)
     THEN /\ UNCHANGED store
          /\ lastCall' = Call("setCurrentMonth", 0, TRUE, NothingShown)
     ELSE /\ currentMonth' = month
          /\ monthlyData' = recalculateMonthlyData(transactions, month)
          /\ UNCHANGED <<categories, transactions>>
          /\ lastCall' = Call("setCurrentMonth", 0, FALSE, NothingShown)
  /\ UNCHANGED <<tz, everIds>>

\* An import that takes any parsed object, whatever its transactions field is
importAccepted_anyObject(doc) ==
  /\ doc.kind = "object"
  /\ ~recalculateThrows(doc.tx)

\* The set() of importData runs: JSON.parse succeeded, the transactions field
\* is a list, and recalculateMonthlyData does not throw on it
importAccepted(doc) ==
  /\ doc.kind = "object"
  /\ doc.txk = "list"
  /\ ~recalculateThrows(doc.tx)

\* An import that always takes the document's categories
importedCategories_always(doc) == doc.cats

\* parsedData.categories || state.categories
importedCategories(doc) ==
  IF doc.ck \in {"absent", "null"} THEN categories ELSE doc.cats

\* importData(data), with doc what JSON.parse makes of data
importData(doc) ==
  IF importAccepted(doc)
  THEN /\ transactions' = doc.tx
       /\ categories' = importedCategories(doc)
       /\ monthlyData' = recalculateMonthlyData(doc.tx, currentMonth)
       /\ UNCHANGED currentMonth
  ELSE UNCHANGED store

\* An import that replaces the list
mergeTransactions_replace(old, withIds) == withIds

\* const allTransactions = [...state.transactions, ...transactionsWithIds]
mergeTransactions(old, withIds) == old \o withIds

\* A merge that adds every category the parser reports
mergeCategories_all(old, newCategories) == old \o newCategories

\* Merge categories (avoiding duplicates)
mergeCategories(old, newCategories) ==
  LET existingCategoryIds == {old[i].id : i \in 1..Len(old)}
      categoriesToAdd == SelectSeq(newCategories, LAMBDA c : c.id \notin existingCategoryIds)
  IN old \o categoriesToAdd

\* What importCSV returns
csvResult(parsed) ==
  [success |-> TRUE,
   transactions |-> Len(parsed.transactions),
   categories |-> Len(parsed.newCategories)]

\* The set() of importCSV on what parseCSVData returned, with ids[i] what the
\* i-th call of generateId returns
importParsed(parsed, ids) ==
  LET transactionsWithIds ==
        [i \in 1..Len(parsed.transactions) |-> withId(parsed.transactions[i], ids[i])]
      allTransactions == mergeTransactions(transactions, transactionsWithIds)
  IN IF recalculateThrows(allTransactions)
     THEN UNCHANGED store
     ELSE /\ transactions' = allTransactions
          /\ categories' = mergeCategories(categories, parsed.newCategories)
          /\ monthlyData' = recalculateMonthlyData(allTransactions, currentMonth)
          /\ UNCHANGED currentMonth

\* importCSV on what parseCSVData returned for the content of the file, with
\* the result the import handler shows
importCSVParsed(parsed, file) ==
  /\ Len(transactions) + Len(parsed.transactions) <= MaxTx
  /\ \E ids \in [1..Len(parsed.transactions) -> IdSpace] : importParsed(parsed, ids)
  /\ lastCall' = IF recalculateThrows(transactions \o parsed.transactions)
                 THEN Call("importCSV", file, TRUE,
                           [success |-> FALSE, transactions |-> -1, categories |-> -1])
                 ELSE [Call("importCSV", file, FALSE, csvResult(parsed))
                         EXCEPT !.drafts = parsed.transactions]

\* importCSV(csvData) for the content of a file, called at the instant now
importCSV(file, now) == importCSVParsed(parseCSVData(CsvInputs[file], now), file)

-----------------------------------------------------------------------------
(* The import handler of the data-management view *)

\* The file's content: file 0 is the file exportData() wrote from this state
JsonDoc(file) == IF file = 0 THEN exportData ELSE JsonInputs[file]

\* reader.onload for a file that is not a .csv file
handleFileChangeJSON(file) ==
  /\ importData(JsonDoc(file))
  /\ lastCall' = Call("importData", file, ~importAccepted(JsonDoc(file)),
                      [success |-> TRUE, transactions |-> -1, categories |-> -1])
  /\ everIds' = everIds \cup idsOf(transactions')
  /\ UNCHANGED tz

\* reader.onload for a .csv file
handleFileChangeCSV(file, now) ==
  /\ importCSV(file, now)
  /\ everIds' = everIds \cup idsOf(transactions')
  /\ UNCHANGED tz

-----------------------------------------------------------------------------
(* ExpenseChart: the category breakdown of the selected month *)

\* monthlyData[currentMonth] || { income: 0, expenses: 0, balance: 0, transactions: [] }
currentMonthData ==
  IF currentMonth \in DOMAIN monthlyData THEN monthlyData[currentMonth]
  ELSE [income |-> Num(0), expenses |-> Num(0), balance |-> Num(0), transactions |-> <<>>]

\* totals[categoryId] || 0
orZeroWhenFalsy(a) == IF isNaN(a) \/ ToNumber(a) = Num(0) THEN Num(0) ELSE a

\* totals[categoryId] = (totals[categoryId] || 0) + amount; a new key goes last
addToTotals(totals, t) ==
  IF \E i \in 1..Len(totals) : totals[i].categoryId = t.categoryId
  THEN [i \in 1..Len(totals) |->
          IF totals[i].categoryId = t.categoryId
          THEN [categoryId |-> t.categoryId,
                amount |-> Plus(orZeroWhenFalsy(totals[i].amount), t.amount)]
          ELSE totals[i]]
  ELSE Append(totals, [categoryId |-> t.categoryId, amount |-> Plus(Num(0), t.amount)])

\* The entries of totals after the forEach, in insertion order
RECURSIVE categoryTotals(_)
categoryTotals(ts) ==
  IF ts = <<>> THEN <<>>
  ELSE addToTotals(categoryTotals(SubSeq(ts, 1, Len(ts) - 1)), ts[Len(ts)])

\* A share of the total that is not scaled to a hundred
percentage_fraction(amount, totalAmount) ==
  IF LessThan(Num(0), totalAmount) THEN Divide(amount, totalAmount) ELSE Num(0)

\* totalAmount > 0 ? (amount / totalAmount) * 100 : 0
percentage(amount, totalAmount) ==
  IF LessThan(Num(0), totalAmount) THEN Times(Divide(amount, totalAmount), Num(10000))
  ELSE Num(0)

chartOf(totals, totalAmount, viewType) ==
  [viewType |-> viewType,
   totalAmount |-> totalAmount,
   categoryTotals |-> totals,
   categoryPercentages |->
     [i \in 1..Len(totals) |->
        [categoryId |-> totals[i].categoryId,
         percentage |-> percentage(totals[i].amount, totalAmount)]]]

\* The effect that computes categoryTotals and categoryPercentages
chartEffect(data, viewType) ==
  chartOf(categoryTotals(SelectSeq(data.transactions, LAMBDA t : t.type = viewType)),
          IF viewType = "expense" THEN data.expenses ELSE data.income,
          viewType)

\* ExpenseChart rendered with the given viewType
ExpenseChart(viewType) ==
  /\ lastCall' = Call("ExpenseChart", 0, FALSE, chartEffect(currentMonthData, viewType))
  /\ UNCHANGED <<tz, store, everIds>>

-----------------------------------------------------------------------------
(* Specification *)

Init ==
  /\ tz \in TimeZones
  /\ \E now \in Clock : currentMonth = LocalMonth(ValidDate(now))
  /\ categories = defaultCategories
  /\ transactions = <<>>
  /\ monthlyData = <<>>
  /\ everIds = {}
  /\ lastCall = Call("init", 0, FALSE, NothingShown)

Next ==
  \/ \E transaction \in Drafts, id \in IdSpace : addTransaction(transaction, id)
  \/ \E id \in IdSpace : deleteTransaction(id)
  \/ \E id \in IdSpace, updatedFields \in Updates : updateTransaction(id, updatedFields)
  \/ \E month \in Months : setCurrentMonth(month)
  \/ \E file \in 0..Len(JsonInputs) : handleFileChangeJSON(file)
  \/ \E file \in 1..Len(CsvInputs), now \in Clock : handleFileChangeCSV(file, now)

Spec == Init /\ [][Next]_vars

\* The sequences of addTransaction, importCSV and deleteTransaction alone
NextIds ==
  \/ \E transaction \in Drafts, id \in IdSpace : addTransaction(transaction, id)
  \/ \E id \in IdSpace : deleteTransaction(id)
  \/ \E file \in 1..Len(CsvInputs), now \in Clock : handleFileChangeCSV(file, now)

SpecIds == Init /\ [][NextIds]_vars

\* parseCSVData on its own: a text is drawn, and the call returns its result.
\* lastCall holds the text (as its rows) and then the returned object.
InitNormalizer ==
  /\ tz \in TimeZones
  /\ \E now \in Clock : currentMonth = LocalMonth(ValidDate(now))
  /\ categories = defaultCategories
  /\ transactions = <<>>
  /\ monthlyData = <<>>
  /\ everIds = {}
  /\ \E rows \in RowLists, layout \in Layouts :
       lastCall = [op |-> "csvData", arg |-> rows, layout |-> layout,
                   result |-> [transactions |-> <<>>, newCategories |-> <<>>]]

normalize(now) ==
  /\ lastCall.op = "csvData"
  /\ lastCall' = [op |-> "parseCSVData", arg |-> lastCall.arg, layout |-> lastCall.layout,
                  result |-> parseCSVData(csvTextIn(lastCall.arg, lastCall.layout), now)]
  /\ UNCHANGED <<tz, store, everIds>>

NextNormalizer == \E now \in Clock : normalize(now)

SpecNormalizer == InitNormalizer /\ [][NextNormalizer]_vars

\* calculateMonthData and the chart on their own: the store holds a list drawn
\* from Ledgers, the month selector moves and the chart is rendered.
InitAggregate ==
  /\ tz \in TimeZones
  /\ \E now \in Clock : currentMonth = LocalMonth(ValidDate(now))
  /\ categories = defaultCategories
  /\ \E l \in Ledgers : transactions = ledger(l)
  /\ monthlyData = recalculateMonthlyData(transactions, currentMonth)
  /\ everIds = idsOf(transactions)
  /\ lastCall = Call("init", 0, FALSE, NothingShown)

NextAggregate ==
  \/ \E month \in Months : setCurrentMonth(month)
  \/ \E viewType \in {"expense", "income"} : ExpenseChart(viewType)

SpecAggregate == InitAggregate /\ [][NextAggregate]_vars

-----------------------------------------------------------------------------
(* ExportForm: the CSV export of the stored transactions, and its import *)

StrExpenses == <<"E", "x", "p", "e", "n", "s", "e", "s">>
StrAllowanceLower == <<"a", "l", "l", "o", "w", "a", "n", "c", "e">>

\* The decimal digits of a natural number
RECURSIVE decimalText(_)
decimalText(n) ==
  IF n < 10 THEN <<DigitChars[n + 1]>>
  ELSE Append(decimalText(n \div 10), DigitChars[(n % 10) + 1])

\* The hundredths after the point, without trailing zeros
fractionText(h) ==
  IF h = 0 THEN <<>>
  ELSE IF h % 10 = 0 THEN <<".">> \o decimalText(h \div 10)
  ELSE <<".", DigitChars[(h \div 10) + 1], DigitChars[(h % 10) + 1]>>

\* Number.prototype.toString of a number that is the double nearest to a
\* count of hundredths (the stored amounts of StoredEntries), of NaN and of
\* the infinities
numberToString(a) ==
  IF a.k = "nan" THEN <<"N", "a", "N">>
  ELSE IF a.k = "inf" THEN (IF a.v < 0 THEN <<"-">> ELSE <<>>) \o StrInfinity
  ELSE IF a.v < 0 THEN <<"-">> \o decimalText((0 - a.v) \div 100) \o fractionText((0 - a.v) % 100)
  ELSE decimalText(a.v \div 100) \o fractionText(a.v % 100)

\* The local day of the month of a valid date
dayOfMonth(date) ==
  (date.v + tz) \div 1440
    - DaysFromCivil(LocalMonth(date).y, LocalMonth(date).m, 1) + 1

\* The token yyyy: at least four digits
yearText(y) ==
  [i \in 1..(4 - Len(decimalText(y))) |-> "0"] \o decimalText(y)

\* format(new Date(t.date), 'yyyy-M-d')
formatYMD(date) ==
  yearText(LocalMonth(date).y) \o <<"-">> \o decimalText(LocalMonth(date).m)
    \o <<"-">> \o decimalText(dayOfMonth(date))

\* categories.find(c => c.id === t.categoryId), then its name or the id
categoryName(categoryId, cs) ==
  IF \E i \in 1..Len(cs) : cs[i].id = categoryId
  THEN cs[CHOOSE i \in 1..Len(cs) :
            cs[i].id = categoryId /\ \A j \in 1..(i - 1) : cs[j].id # categoryId].name
  ELSE categoryId

\* Handle description with commas by quoting if needed
quotedDescription(description) ==
  IF \E i \in 1..Len(description) : description[i] = ","
  THEN <<"\"">> \o description \o <<"\"">>
  ELSE description

\* Negative for expenses
signedAmount(t) == IF t.type = "income" THEN t.amount ELSE Negate(t.amount)

\* One data row of the export
exportRow(t) ==
  Join(<<formatYMD(t.date),
         IF t.type = "income" THEN StrIncome ELSE StrExpenses,
         categoryName(t.categoryId, categories),
         quotedDescription(t.description),
         numberToString(signedAmount(t))>>, <<",">>)

ExportHeader == <<"D", "a", "t", "e", ",", "I", "n", "c", "o", "m", "e", "/", "E", "x", "p", "e", "n", "s", "e", "s", ",", "C", "a", "t", "e", "g", "o", "r", "y", ",", "M", "e", "m", "o", ",", "A", "m", "o", "u", "n", "t">>

\* csvRows.join('\n')
csvContent(filteredTransactions) ==
  Join(<<ExportHeader>> \o [i \in 1..Len(filteredTransactions) |->
                              exportRow(filteredTransactions[i])], <<"\n">>)

\* new Date('yyyy-MM-dd'): midnight UTC of the day
dateOnly(day) == DaysFromCivil(day.y, day.m, day.d) * 1440

\* end.setHours(23, 59, 59, 999): the last minute of the local day of the
\* instant
endOfDay(instant) == ((instant + tz) \div 1440) * 1440 + 1439 - tz

\* transactionDate >= start && transactionDate <= end
inExportRange(t, startDate, endDate) ==
  t.date.v >= dateOnly(startDate) /\ t.date.v <= endOfDay(dateOnly(endDate))

\* The category a CSV import of the label Allowance has added
allowanceCategory ==
  [id |-> StrAllowanceLower, name |-> StrAllowance,
   icon |-> getCategoryIcon(StrAllowanceLower), type |-> "income"]

\* The transactions the store can hold when the export form is opened
StoredEntries ==
  <<[amount |-> Num(1250), description |-> StrLunch,
     date |-> ValidDate(NewDate(2024, 2, 15).v + 600),
     categoryId |-> StrFood, type |-> "expense"],
    [amount |-> Num(500000), description |-> <<>>,
     date |-> ValidDate(DaysFromCivil(2024, 2, 29) * 1440 + 1110),
     categoryId |-> StrSalary, type |-> "income"],
    [amount |-> Num(1250), description |-> <<"L", "u", "n", "c", "h", ",", " ", "t", "e", "a">>,
     date |-> NewDate(2024, 2, 1),
     categoryId |-> StrFood, type |-> "expense"],
    [amount |-> Num(10010), description |-> <<"B", "o", "n", "u", "s", " ", "2", "0", "2", "4">>,
     date |-> ValidDate(NewDate(2024, 2, 31).v + 1439),
     categoryId |-> StrOtherIncome, type |-> "income"],
    [amount |-> Num(50000), description |-> <<"W", "e", "e", "k", " ", "1", "2">>,
     date |-> NewDate(2024, 2, 15),
     categoryId |-> StrAllowanceLower, type |-> "income"]>>

\* The largest number of stored transactions
MaxStored == 2

\* The stored lists, each as the positions in StoredEntries of its members
StoredLists ==
  UNION {{l \in [1..n -> 1..Len(StoredEntries)] :
            \A i, j \in 1..n : l[i] = l[j] => i = j} : n \in 0..MaxStored}

stored(l) == [i \in 1..Len(l) |-> withId(StoredEntries[l[i]], i)]

\* The date ranges chosen in the form
ExportRanges ==
  {[start |-> [y |-> 2024, m |-> 2, d |-> 1], end |-> [y |-> 2024, m |-> 3, d |-> 31]],
   [start |-> [y |-> 2024, m |-> 3, d |-> 1], end |-> [y |-> 2024, m |-> 3, d |-> 31]]}

\* handleExport with exportFormat 'csv': lastCall holds the exported
\* transactions and the content of the file
exportOf(filteredTransactions) ==
  /\ lastCall' = [op |-> "handleExport", exported |-> filteredTransactions,
                  csv |-> csvContent(filteredTransactions), imported |-> <<>>]
  /\ UNCHANGED <<tz, store, everIds>>

handleExport(startDate, endDate) ==
  exportOf(SelectSeq(transactions, LAMBDA t : inExportRange(t, startDate, endDate)))

\* importCSV(csvData) of the exported file, into the store it was exported
\* from
importExportedParsed(parsed) ==
  \E ids \in [1..Len(parsed.transactions) -> IdSpace] :
    /\ importParsed(parsed, ids)
    /\ lastCall' = [op |-> "importCSV", exported |-> lastCall.exported, csv |-> lastCall.csv,
                    imported |-> [i \in 1..Len(parsed.transactions) |->
                                    withId(parsed.transactions[i], ids[i])]]
    /\ everIds' = everIds \cup idsOf(transactions')
    /\ UNCHANGED tz

importExported(now) ==
  /\ lastCall.op = "handleExport"
  /\ Len(transactions) + Len(lastCall.exported) <= 2 * MaxStored
  /\ importExportedParsed(parseCSVData(lastCall.csv, now))

InitRoundTrip ==
  /\ tz \in TimeZones
  /\ \E now \in Clock : currentMonth = LocalMonth(ValidDate(now))
  /\ categories = Append(defaultCategories, allowanceCategory)
  /\ \E l \in StoredLists : transactions = stored(l)
  /\ monthlyData = recalculateMonthlyData(transactions, currentMonth)
  /\ everIds = idsOf(transactions)
  /\ lastCall = [op |-> "init", exported |-> <<>>, csv |-> <<>>, imported |-> <<>>]

NextRoundTrip ==
  \/ \E range \in ExportRanges : handleExport(range.start, range.end)
  \/ \E now \in Clock : importExported(now)

SpecRoundTrip == InitRoundTrip /\ [][NextRoundTrip]_vars

-----------------------------------------------------------------------------
(* Properties *)

Range(s) == {s[i] : i \in 1..Len(s)}

categoryIds(cs) == {cs[i].id : i \in 1..Len(cs)}

StrSelfCare == <<"s", "e", "l", "f", "_", "c", "a", "r", "e">>

\* C1: after any sequence of addTransaction, updateTransaction,
\* deleteTransaction, setCurrentMonth, importJSON and importCSV, every aggregate
\* held in the cache under a month key equals the aggregate computed from the
\* current transaction list for that month; list and cache change in one step.
C1_CacheMatchesTransactions ==
  \A m \in DOMAIN monthlyData : monthlyData[m] = calculateMonthData(transactions, m)

\* A transaction was deleted from a list of two, and the cache holds an
\* aggregate with the remaining transaction.
C1_Witness ==
  /\ lastCall.op = "deleteTransaction"
  /\ ~lastCall.rejected
  /\ Cardinality(everIds) = 2
  /\ Len(transactions) = 1
  /\ \E m \in DOMAIN monthlyData : monthlyData[m].transactions = transactions

\* The months that contain at least one transaction of the list
monthsWithTransactions ==
  {m \in Months \cup DOMAIN monthlyData :
     \E i \in 1..Len(transactions) : inMonthRange(transactions[i], m)}

\* C2: in every reachable state, the initial state included, the month keys of
\* the cache are exactly the months that contain a transaction together with the
\* selected month.
C2_CacheKeysAreUsedMonths ==
  DOMAIN monthlyData = monthsWithTransactions \cup {currentMonth}

\* C3: exporting the store as JSON and importing the result leaves a transaction
\* list and a category list with the same members as before.
C3_JsonRoundTrip ==
  [][(lastCall'.op = "importData" /\ lastCall'.arg = 0) =>
       /\ Range(transactions') = Range(transactions)
       /\ Range(categories') = Range(categories)]_vars

\* The document has no list of transactions: the text does not parse, or the
\* transactions field is missing or is no list
lacksTransactionsList(doc) == doc.kind = "unparsable" \/ doc.txk # "list"

\* C4: importJSON of text that does not parse, or whose transactions field is
\* missing or not a list, is rejected and leaves the transaction list, the
\* category list, the selected month and the cache exactly as they were.
C4_RejectedImportKeepsState ==
  [][\A file \in 0..Len(JsonInputs) :
       (/\ lastCall'.op = "importData"
        /\ lastCall'.arg = file
        /\ lacksTransactionsList(JsonDoc(file)))
       => lastCall'.rejected /\ UNCHANGED store]_vars

\* Such a document was imported into a store that holds a transaction.
C4_Witness ==
  /\ lastCall.op = "importData"
  /\ lastCall.arg \in 1..Len(JsonInputs)
  /\ lacksTransactionsList(JsonInputs[lastCall.arg])
  /\ lastCall.rejected
  /\ transactions # <<>>

\* C5: a rejected importJSON is reported to its caller as a failure, so the
\* caller never presents a rejected import as a successful one.
C5_RejectedImportReported ==
  (lastCall.op = "importData" /\ lastCall.rejected) => ~lastCall.shown.success

\* A step in which importJSON accepted the content of the file
acceptedImport(file) ==
  /\ lastCall'.op = "importData"
  /\ lastCall'.arg = file
  /\ ~lastCall'.rejected

\* The effect of an accepted import on transactions, selected month and cache
acceptedImportEffect(doc) ==
  /\ transactions' = doc.tx
  /\ currentMonth' = currentMonth
  /\ currentMonth \in DOMAIN monthlyData'
  /\ \A m \in DOMAIN monthlyData' : monthlyData'[m] = calculateMonthData(doc.tx, m)

\* C6 as stated: an accepted importJSON makes the transaction list the
\* document's list, makes the category list the document's categories when the
\* field is present and leaves it unchanged when absent, keeps the selected
\* month and recomputes the cache from the new list.
C6_AcceptedImportAsStated ==
  [][\A file \in 0..Len(JsonInputs) :
       acceptedImport(file) =>
         /\ acceptedImportEffect(JsonDoc(file))
         /\ IF JsonDoc(file).ck = "absent"
            THEN categories' = categories
            ELSE JsonDoc(file).ck = "list" /\ categories' = JsonDoc(file).cats]_vars

\* C6 amended: as above, but the category list becomes the document's
\* categories only when the field holds a list, and is left unchanged when the
\* field is absent or null.
C6_AcceptedImportEffect ==
  [][\A file \in 0..Len(JsonInputs) :
       acceptedImport(file) =>
         /\ acceptedImportEffect(JsonDoc(file))
         /\ IF JsonDoc(file).ck = "list"
            THEN categories' = JsonDoc(file).cats
            ELSE categories' = categories]_vars

\* A document with a transaction and "categories": null was accepted by a store
\* that had held a transaction with another id.
C6_Witness ==
  /\ lastCall.op = "importData"
  /\ ~lastCall.rejected
  /\ lastCall.arg \in 1..Len(JsonInputs)
  /\ JsonInputs[lastCall.arg].ck = "null"
  /\ transactions = JsonInputs[lastCall.arg].tx
  /\ everIds \ idsOf(transactions) # {}
  /\ categories = defaultCategories

\* A step in which importCSV changed the store
csvImported == lastCall'.op = "importCSV" /\ ~lastCall'.rejected

\* C7: importCSV never removes or modifies a stored transaction: the new list is
\* the old list, in the same order and with the same field values, followed by
\* one transaction per draft the Import Normalizer returned.
C7_ImportCsvAppends ==
  [][csvImported =>
       /\ Len(transactions') = Len(transactions) + Len(lastCall'.drafts)
       /\ \A i \in 1..Len(transactions) : transactions'[i] = transactions[i]
       /\ \A i \in 1..Len(lastCall'.drafts) :
            \E id \in IdSpace :
              transactions'[Len(transactions) + i] = withId(lastCall'.drafts[i], id)]_vars

\* A one-row file was imported into a store that held an added transaction.
C7_Witness ==
  /\ lastCall.op = "importCSV"
  /\ ~lastCall.rejected
  /\ lastCall.shown.transactions = 1
  /\ Len(transactions) = 2
  /\ transactions[1].categoryId = StrFood
  /\ transactions[2].categoryId = StrSelfCare

\* C8: when importCSV merges categories, every category present before is still
\* present with the same name, icon and kind, an imported category whose id is
\* already in the store is not added, and a label imported twice is added once.
C8_ImportCsvMergesCategories ==
  [][csvImported =>
       /\ Len(categories') >= Len(categories)
       /\ \A i \in 1..Len(categories) : categories'[i] = categories[i]
       /\ \A j \in (Len(categories) + 1)..Len(categories') :
            /\ categories'[j].id \notin categoryIds(categories)
            /\ \A k \in (Len(categories) + 1)..Len(categories') :
                 k # j => categories'[k].id # categories'[j].id]_vars

\* The file with the label "Self Care" was imported twice, and the category
\* list holds self_care once.
C8_Witness ==
  /\ lastCall.op = "importCSV"
  /\ ~lastCall.rejected
  /\ Len(transactions) = 2
  /\ \A i \in 1..2 : transactions[i].categoryId = StrSelfCare
  /\ Cardinality({i \in 1..Len(categories) : categories[i].id = StrSelfCare}) = 1

\* C9: in every reachable state no two categories of the category list have the
\* same id.
C9_CategoryIdsUnique ==
  \A i, j \in 1..Len(categories) : i # j => categories[i].id # categories[j].id

\* C10: over any sequence of addTransaction, importCSV and deleteTransaction,
\* every new transaction receives an id that no transaction in the store has and
\* that no earlier transaction, a deleted one included, ever had.
C10_TransactionIdsFresh ==
  [][(lastCall'.op \in {"addTransaction", "importCSV"} /\ ~lastCall'.rejected) =>
       LET added == SubSeq(transactions', Len(transactions) + 1, Len(transactions'))
       IN /\ \A i \in 1..Len(added) : added[i].id \notin everIds
          /\ \A i, j \in 1..Len(added) : i # j => added[i].id # added[j].id]_vars

\* The list in which the transactions with the given id have the passed fields
\* overwritten and their other fields unchanged
overwritten(ts, id, fields) ==
  [i \in 1..Len(ts) |->
     IF ts[i].id = id
     THEN [f \in DOMAIN ts[i] |-> IF f \in DOMAIN fields THEN fields[f] ELSE ts[i][f]]
     ELSE ts[i]]

nonNegative(a) == ~isNaN(a) /\ ~LessThan(a, Num(0))

\* C12: in every state reachable through addTransaction, updateTransaction,
\* importJSON and importCSV, every transaction in the store has a non-negative
\* amount.
C12_AmountsNonNegative ==
  \A i \in 1..Len(transactions) : nonNegative(transactions[i].amount)

\* C13: every transaction in the store has a date that parses to a valid
\* instant, and an addTransaction, updateTransaction or importJSON that would
\* introduce a transaction with an unparseable date does not change the store.
C13_DatesValid ==
  [][/\ \A i \in 1..Len(transactions') : transactions'[i].date.k = "ok"
     /\ (/\ lastCall'.op \in {"addTransaction", "updateTransaction", "importData"}
         /\ lastCall'.rejected)
        => UNCHANGED store]_vars

\* An update that passed an unparseable date for a stored transaction was
\* refused.
C13_Witness ==
  /\ lastCall.op = "updateTransaction"
  /\ lastCall.rejected
  /\ lastCall.arg \in idsOf(transactions)

\* C16: after setCurrentMonth(M) for a month M in which no transaction falls,
\* the cache holds an aggregate for M with income, expenses and balance 0 and an
\* empty transaction list, and the transaction list and the category list are
\* unchanged.
C16_EmptyMonthSelected ==
  [][(/\ lastCall'.op = "setCurrentMonth"
      /\ \E month \in Months :
           /\ currentMonth' = month
           /\ \A i \in 1..Len(transactions) : ~inMonthRange(transactions[i], month))
     => /\ currentMonth' \in DOMAIN monthlyData'
        /\ monthlyData'[currentMonth'] =
             [income |-> Num(0), expenses |-> Num(0), balance |-> Num(0),
              transactions |-> <<>>]
        /\ transactions' = transactions
        /\ categories' = categories]_vars

\* A month without transactions was selected in a store that holds one.
C16_Witness ==
  /\ lastCall.op = "setCurrentMonth"
  /\ ~lastCall.rejected
  /\ transactions # <<>>
  /\ \A i \in 1..Len(transactions) : ~inMonthRange(transactions[i], currentMonth)
  /\ monthlyData[currentMonth].transactions = <<>>

RemoveAt(s, i) == SubSeq(s, 1, i - 1) \o SubSeq(s, i + 1, Len(s))

\* The date field of the row cannot be parsed
dateUnparseable(row) == parseRowDate(split(row, ",")[1]).failed

\* C18: a CSV row whose date field cannot be parsed is absent from the list of
\* transactions the Import Normalizer returns, while every valid row of the
\* same input is still returned: the returned list is the one returned for the
\* input without its unparseable rows.
C18_UnparseableRowAbsent ==
  lastCall.op = "parseCSVData" =>
    \E now \in Clock :
      lastCall.result.transactions =
        parseCSVData(csvText(SelectSeq(lastCall.arg,
                       LAMBDA r : ~dateUnparseable(NormalizerRows[r]))), now).transactions

\* The placeholder the claim describes: expense kind, amount 0, category others,
\* a description that holds the failure reason
isPlaceholder(t, reason) ==
  /\ t.type = "expense"
  /\ t.amount = Num(0)
  /\ t.categoryId = StrOthers
  /\ Len(reason) > 0
  /\ \E k \in 0..(Len(t.description) - Len(reason)) :
       SubSeq(t.description, k + 1, k + Len(reason)) = reason

\* C19: the Import Normalizer returns a result for every input text: a row
\* whose processing fails yields a placeholder transaction of expense kind with
\* amount 0, category id others and a description containing the failure
\* reason, and the transactions produced for the other rows are the same as if
\* the failing row were not there.
C19_FailingRowIsPlaceholder ==
  lastCall.op = "parseCSVData" =>
    /\ Len(lastCall.result.transactions) = Len(lastCall.arg)
    /\ \A i \in 1..Len(lastCall.arg) :
         dateUnparseable(NormalizerRows[lastCall.arg[i]]) =>
           /\ isPlaceholder(lastCall.result.transactions[i],
                            parseRowDate(split(NormalizerRows[lastCall.arg[i]], ",")[1]).message)
           /\ \E now \in Clock :
                RemoveAt(lastCall.result.transactions, i) =
                  parseCSVData(csvText(RemoveAt(lastCall.arg, i)), now).transactions

\* A text whose first row has an unparseable date and whose second row is
\* valid was normalised.
C19_Witness ==
  /\ lastCall.op = "parseCSVData"
  /\ Len(lastCall.arg) = 2
  /\ dateUnparseable(NormalizerRows[lastCall.arg[1]])
  /\ ~dateUnparseable(NormalizerRows[lastCall.arg[2]])
  /\ lastCall.result.transactions[2].type = "income"

\* The two texts are equal ignoring letter case
equalsIgnoringCase(a, b) ==
  /\ Len(a) = Len(b)
  /\ \A i \in 1..Len(a) : LowerChar(a[i]) = LowerChar(b[i])

\* C20: for every CSV row that is processed without failure, the produced
\* transaction has kind income exactly when the kind label equals "income"
\* ignoring letter case, and kind expense for every other label.
C20_KindFromLabel ==
  lastCall.op = "parseCSVData" =>
    \A i \in 1..Len(lastCall.arg) :
      ~dateUnparseable(NormalizerRows[lastCall.arg[i]]) =>
        lastCall.result.transactions[i].type =
          IF equalsIgnoringCase(split(NormalizerRows[lastCall.arg[i]], ",")[2],
                                StrLowerIncome)
          THEN "income" ELSE "expense"

\* A row labelled in lower case gave an income next to a row labelled
\* 'Expenses' that gave an expense.
C20_Witness ==
  /\ lastCall.op = "parseCSVData"
  /\ Len(lastCall.arg) = 2
  /\ split(NormalizerRows[lastCall.arg[1]], ",")[2] = StrLowerIncome
  /\ lastCall.result.transactions[1].type = "income"
  /\ Len(split(NormalizerRows[lastCall.arg[2]], ",")[2]) > Len(StrLowerIncome)
  /\ lastCall.result.transactions[2].type = "expense"

\* C14: for every transaction list T and every month M, the aggregate
\* calculateMonthData(T, M) returns satisfies balance = income - expenses.
C14_BalanceIsDifference ==
  \A month \in DOMAIN monthlyData :
    monthlyData[month].balance
      = Minus(monthlyData[month].income, monthlyData[month].expenses)

\* The aggregate of the selected month holds an income, a sum of expenses that
\* is not a double of two decimals, and a balance below the income.
C14_Witness ==
  /\ lastCall.op = "setCurrentMonth"
  /\ LessThan(Num(0), currentMonthData.income)
  /\ currentMonthData.expenses.d # Zero64
  /\ LessThan(Num(0), currentMonthData.balance)
  /\ LessThan(currentMonthData.balance, currentMonthData.income)

\* The orderings of a list of n members
Orderings(n) == {p \in [1..n -> 1..n] : \A i, j \in 1..n : p[i] = p[j] => i = j}

reordered(ts, p) == [i \in 1..Len(ts) |-> ts[p[i]]]

\* The members of ts of the given kind whose date lies between the first and
\* the last instant of the month, both included, in the order of ts
membersOf(ts, month, type) ==
  SelectSeq(ts, LAMBDA t : /\ t.type = type
                           /\ t.date.v >= getMonthRange(month).start
                           /\ t.date.v <= getMonthRange(month).end)

\* The aggregate holds the members of ts that fall in the month, and its sums
\* are those of the members of each kind
aggregates(data, ts, month) ==
  /\ data.transactions =
       SelectSeq(ts, LAMBDA t : /\ t.date.v >= getMonthRange(month).start
                                /\ t.date.v <= getMonthRange(month).end)
  /\ data.income = sumAmounts(membersOf(ts, month, "income"))
  /\ data.expenses = sumAmounts(membersOf(ts, month, "expense"))

allQuarters(ts) == \A i \in 1..Len(ts) : isQuarters(ts[i].amount)

\* The sums of the two aggregates are equal up to the rounding of the
\* additions: equal to two decimal places, and equal when every amount added
\* is a multiple of 0.25
sameUpToRounding(a, b, ts) ==
  /\ a.k = b.k
  /\ a.v = b.v
  /\ allQuarters(ts) => a = b

RECURSIVE sumOf(_)
sumOf(numbers) ==
  IF numbers = <<>> THEN Num(0)
  ELSE Plus(sumOf(SubSeq(numbers, 1, Len(numbers) - 1)), numbers[Len(numbers)])

percentagesOf(chart) ==
  [i \in 1..Len(chart.categoryPercentages) |-> chart.categoryPercentages[i].percentage]

totalsOf(chart) == [i \in 1..Len(chart.categoryTotals) |-> chart.categoryTotals[i].amount]

C27_InExactlyOneAggregate ==
  lastCall.op # "init" =>
    \A i \in 1..Len(transactions) :
      Cardinality({month \in DOMAIN monthlyData :
                     \E j \in 1..Len(monthlyData[month].transactions) :
                       monthlyData[month].transactions[j] = transactions[i]}) = 1

\* C28: the summary importCSV returns reports as imported transactions the
\* number of transactions appended to the store and as new categories the
\* number of categories added to the category list by that call, and its
\* success flag is true whenever the store was updated.
C28_SummaryCountsWhatWasAdded ==
  [][lastCall'.op = "importCSV" =>
       /\ store' # store => lastCall'.shown.success
       /\ lastCall'.shown.success =>
            /\ lastCall'.shown.transactions = Len(transactions') - Len(transactions)
            /\ lastCall'.shown.categories = Len(categories') - Len(categories)]_vars

\* C30: deleteTransaction(id) removes every transaction with that id and
\* leaves the other transactions unchanged and in the same order;
\* deleteTransaction and updateTransaction with an id that no transaction has
\* leave the transaction list unchanged; and addTransaction, updateTransaction
\* and deleteTransaction never change the category list or the selected month.
C30_FrameOfListOperations ==
  [][/\ lastCall'.op = "deleteTransaction" =>
          transactions' = SelectSeq(transactions, LAMBDA t : t.id # lastCall'.arg)
     /\ (/\ lastCall'.op \in {"deleteTransaction", "updateTransaction"}
         /\ lastCall'.arg \notin idsOf(transactions)) =>
          transactions' = transactions
     /\ lastCall'.op \in {"addTransaction", "deleteTransaction", "updateTransaction"} =>
          /\ categories' = categories
          /\ currentMonth' = currentMonth]_vars

\* deleteTransaction(1) removed the transaction with id 1 from a list that
\* also held a transaction with id 2, which is what remains.
C30_Witness ==
  /\ lastCall.op = "deleteTransaction"
  /\ lastCall.arg = 1
  /\ everIds = {1, 2}
  /\ Len(transactions) = 1
  /\ transactions[1].id = 2

\* C21: the Import Normalizer puts a category into newCategories only when the
\* id derived from the row's label was not seen earlier in the same import and
\* is not an id the application already knows; a label whose id is known, such
\* as Food or Salary, produces no new category.
C21_NewCategoriesAreUnknown ==
  lastCall.op = "parseCSVData" =>
    \A i \in 1..Len(lastCall.result.newCategories) :
      /\ \A j \in 1..Len(categories) :
           categories[j].id # lastCall.result.newCategories[i].id
      /\ \A j \in 1..(i - 1) :
           lastCall.result.newCategories[j].id # lastCall.result.newCategories[i].id

\* The number of days of the month
daysInMonth(y, m) ==
  IF m = 12 THEN 31 ELSE DaysFromCivil(y, m + 1, 1) - DaysFromCivil(y, m, 1)

\* The three parts are numerals that name a day of the calendar
isCalendarDay(p) ==
  /\ Len(p) = 3
  /\ \A k \in 1..3 : p[k] # <<>> /\ AllDigits(p[k])
  /\ DecVal(p[2]) \in 1..12
  /\ DecVal(p[3]) \in 1..daysInMonth(DecVal(p[1]), DecVal(p[2]))

StrInvalidDate == <<"I", "n", "v", "a", "l", "i", "d", " ", "d", "a", "t", "e">>

\* C22: a CSV row whose date has a non-numeric component or a component out of
\* range (a month outside 1..12 or a day that does not exist in that month, as
\* in 2024-13-45) is treated as an invalid row, giving the placeholder and not
\* a transaction with the row's kind, category and amount on another date.
C22_OutOfRangeDateIsInvalid ==
  lastCall.op = "parseCSVData" =>
    \A i \in 1..Len(lastCall.arg) :
      ~isCalendarDay(split(split(NormalizerRows[lastCall.arg[i]], ",")[1], "-")) =>
        isPlaceholder(lastCall.result.transactions[i], StrInvalidDate)

\* C23: every transaction the Import Normalizer returns has a finite,
\* non-negative amount: separators and sign are dropped, and a text that
\* cannot be read as a finite number gives amount 0 while the row is kept.
C23_AmountsFiniteNonNegative ==
  lastCall.op = "parseCSVData" =>
    \A i \in 1..Len(lastCall.result.transactions) :
      /\ lastCall.result.transactions[i].amount.k = "num"
      /\ lastCall.result.transactions[i].amount.v >= 0

\* C24: the amount-repair heuristics change nothing for a well-formed row: for
\* every row that has exactly five fields after quote-aware splitting (and
\* whose date parses), the description and the amount of its transaction are
\* those of its fourth and fifth fields, also for an Income row of category
\* Allowance whose description ends in digits and whose amount has three
\* digits.
C24_WellFormedRowUnrepaired ==
  lastCall.op = "parseCSVData" =>
    \A i \in 1..Len(lastCall.arg) :
      (/\ Len(splitFields(NormalizerRows[lastCall.arg[i]])) = 5
       /\ ~dateUnparseable(NormalizerRows[lastCall.arg[i]])) =>
        /\ lastCall.result.transactions[i].description =
             splitFields(NormalizerRows[lastCall.arg[i]])[4]
        /\ lastCall.result.transactions[i].amount =
             parseAmount(splitFields(NormalizerRows[lastCall.arg[i]])[5])

\* C25: a row of the known malformed shape, date,Income,Allowance ,,NN,NNN
\* with an unquoted comma-grouped amount at the end, is imported as exactly one
\* income transaction whose amount is the reassembled number NNNNN, not NN and
\* not NNN.
C25_MalformedAllowanceReassembled ==
  lastCall.op = "parseCSVData" =>
    /\ Len(lastCall.result.transactions) = Len(lastCall.arg)
    /\ \A i \in 1..Len(lastCall.arg) :
         matchesAllowanceLine(NormalizerRows[lastCall.arg[i]]) =>
           /\ lastCall.result.transactions[i].type = "income"
           /\ lastCall.result.transactions[i].amount =
                Num(100 * DecVal(split(NormalizerRows[lastCall.arg[i]], ",")[5]
                                 \o split(NormalizerRows[lastCall.arg[i]], ",")[6]))

\* The row 2024-3-15,Income,Allowance ,,40,000 was normalised after a row of
\* another kind and gave an income of 40000.
C25_Witness ==
  /\ lastCall.op = "parseCSVData"
  /\ Len(lastCall.arg) = 2
  /\ ~matchesAllowanceLine(NormalizerRows[lastCall.arg[1]])
  /\ matchesAllowanceLine(NormalizerRows[lastCall.arg[2]])
  /\ lastCall.result.transactions[2].type = "income"
  /\ lastCall.result.transactions[2].amount = Num(4000000)

\* The lines of the text that hold a character other than white space
inkedLines(text) ==
  SelectSeq(split(text, "\n"),
            LAMBDA line : \E k \in 1..Len(line) : line[k] \notin {" ", "\t", "\r", "\f"})

\* One transaction for each line after the first, in the order of the lines
oneForEachLineAfterFirst(found, lines) ==
  /\ Len(found) = IF lines = <<>> THEN 0 ELSE Len(lines) - 1
  /\ \A i \in 1..Len(found) :
       \E now \in Clock :
         <<found[i]>> = parseCSVData(CsvHeader \o <<"\n">> \o lines[i + 1], now).transactions

\* C26: for every input text the Import Normalizer returns exactly one
\* transaction for each non-blank line after the first non-blank line, in the
\* order of the lines: the first non-blank line is always discarded as the
\* header, and the final validity filter never removes a transaction.
C26_OnePerDataLine ==
  lastCall.op = "parseCSVData" =>
    oneForEachLineAfterFirst(lastCall.result.transactions,
                             inkedLines(csvTextIn(lastCall.arg, lastCall.layout)))

\* A text without a header row, whose first line is a data row, was
\* normalised: its two other rows, the first with an unparseable date, gave
\* two transactions.
C26_Witness ==
  /\ lastCall.op = "parseCSVData"
  /\ lastCall.layout = "headerless"
  /\ Len(lastCall.arg) = 2
  /\ dateUnparseable(NormalizerRows[lastCall.arg[1]])
  /\ Len(lastCall.result.transactions) = 2
  /\ lastCall.result.transactions[2].type = "income"

\* The local calendar day of a valid date
localDay(date) == (date.v + tz) \div 1440

\* The description holds no double quote and no line break
plainDescription(t) ==
  \A k \in 1..Len(t.description) : t.description[k] \notin {"\"", "\n", "\r"}

\* C29: exporting a set of stored transactions as CSV and importing that CSV
\* with importCSV into a store with the same categories yields, for each
\* exported transaction whose description contains no double quote or line
\* break, one transaction with the same kind, the same amount, the same
\* category id, the same description and the same calendar day.
C29_CsvRoundTrip ==
  lastCall.op = "importCSV" =>
    /\ Len(lastCall.imported) = Len(lastCall.exported)
    /\ \A i \in 1..Len(lastCall.exported) :
         plainDescription(lastCall.exported[i]) =>
           \E j \in 1..Len(lastCall.imported) :
             /\ lastCall.imported[j].type = lastCall.exported[i].type
             /\ lastCall.imported[j].amount = lastCall.exported[i].amount
             /\ lastCall.imported[j].categoryId = lastCall.exported[i].categoryId
             /\ lastCall.imported[j].description = lastCall.exported[i].description
             /\ lastCall.imported[j].date.k = "ok"
             /\ localDay(lastCall.imported[j].date) = localDay(lastCall.exported[i].date)

====
